---------------------------- MODULE Spec2Model ----------------------------
(***************************************************************************)
(* The two in-memory stores of entente-examples: the castle store of       *)
(* castle-service (examples/castle-service/src/db.ts) and the ruler store  *)
(* of castle-graphql (its db.ts and resolvers.ts).  Each store is the      *)
(* module-level state of its own server process.                           *)
(* In front of the stores stand the validation of POST /castles            *)
(* (openapi-spec.ts) and of the createRuler and updateRuler mutations       *)
(* (resolvers.ts); castle-client (castle-api.ts) reads both services.       *)
(*                                                                         *)
(* JavaScript values are modelled as follows.  An optional property is a   *)
(* sequence of length 0 (undefined) or 1 (the value).  An array that the   *)
(* code changes in place (a ruler's castleIds) lives in `heap` and is      *)
(* named by its address, so that two records holding the same array see    *)
(* each other's changes; arrays and objects the code only ever replaces    *)
(* are plain values.                                                       *)
(***************************************************************************)
EXTENDS Integers, Sequences, FiniteSets, TLC

VARIABLES
    process,         \* which process this behaviour is a run of
    client,          \* castle-client: the call of getAllCastlesWithRulers in progress
    castles,         \* castle-service db.ts: let castles
    sourceCastles,   \* castle-service db.ts: let sourceCastles
    rulers,          \* castle-graphql db.ts: let rulers
    sourceRulers,    \* castle-graphql db.ts: let sourceRulers
    heap,            \* the castleIds arrays, by address
    last,            \* the last call: its name, arguments and return value
                     \* (for a reset: the list it replaced)
    loadedCastles,   \* history: the list given to the last setCastles, if any
    loadedRulers     \* history: the list given to the last setRulers, if any

vars == <<process, client, castles, sourceCastles, rulers, sourceRulers, heap, last,
          loadedCastles, loadedRulers>>

castleVars == <<castles, sourceCastles, loadedCastles>>
rulerVars == <<rulers, sourceRulers, heap, loadedRulers>>

---------------------------------------------------------------------------
(* Bounds *)

MaxCastles == 3
MaxRulers == 2
NumGeneratedIds == 2
NumFixtureCastles == 2
NumFixtureRulers == 1
NumQueryFixtures == 3
NumClientCastles == 3

MaxFixtureEntities == 2

---------------------------------------------------------------------------
(* JavaScript helpers *)

None == <<>>
Some(x) == <<x>>

\* !s for a string
FalsyString(s) == s = ""

\* !n for a number
FalsyNumber(n) == n = 0

\* a || b for an optional string a
OrString(a, b) == IF a = None \/ FalsyString(a[1]) THEN b ELSE a[1]

\* a ?? b for an optional property a and a plain value b
Coalesce(a, b) == IF a = None THEN b ELSE a[1]

\* Array.prototype.findIndex on the id: the first position (from 1) of a
\* record with that id, -1 when there is none
FindIndex(coll, id) ==
    IF \E i \in 1..Len(coll) : coll[i].id = id
    THEN CHOOSE i \in 1..Len(coll) :
            /\ coll[i].id = id
            /\ \A j \in 1..(i - 1) : coll[j].id # id
    ELSE -1

\* Array.prototype.find on the id: the first record with that id, or undefined
Find(coll, id) ==
    IF FindIndex(coll, id) = -1 THEN None ELSE Some(coll[FindIndex(coll, id)])

\* Array.prototype.splice(index, 1)
Splice(coll, index) ==
    [i \in 1..(Len(coll) - 1) |-> IF i < index THEN coll[i] ELSE coll[i + 1]]

\* Array.prototype.filter is SelectSeq of Sequences

\* Array.prototype.includes
Includes(arr, x) == \E i \in 1..Len(arr) : arr[i] = x

\* Array.prototype.indexOf, positions from 1, -1 when absent
IndexOf(arr, x) ==
    IF Includes(arr, x)
    THEN CHOOSE i \in 1..Len(arr) :
            /\ arr[i] = x
            /\ \A j \in 1..(i - 1) : arr[j] # x
    ELSE -1

\* the sequences without repetition over a set, up to a length
SeqsNoRep(S, n) ==
    UNION {{s \in [1..k -> S] : \A i, j \in 1..k : i # j => s[i] # s[j]} : k \in 0..n}

\* A JSON value of a request body, with its typeof
JsUndefined == [t |-> "undefined", s |-> "", n |-> 0]
JsString(str) == [t |-> "string", s |-> str, n |-> 0]
JsNumber(num) == [t |-> "number", s |-> "", n |-> num]

\* !v for a JSON value
Falsy(v) ==
    \/ v.t = "undefined"
    \/ v.t = "string" /\ FalsyString(v.s)
    \/ v.t = "number" /\ FalsyNumber(v.n)

\* !a for an optional string and for an optional number
FalsyOptString(a) == a = None \/ FalsyString(a[1])
FalsyOptNumber(a) == a = None \/ FalsyNumber(a[1])

\* The letters String.prototype.toLowerCase changes, and what it makes of them
UpperCase == <<"A", "B", "C", "D", "E", "F", "G", "H", "I", "J", "K", "L", "M", "N", "O", "P", "Q", "R", "S", "T", "U", "V", "W", "X", "Y", "Z">>
LowerCase == <<"a", "b", "c", "d", "e", "f", "g", "h", "i", "j", "k", "l", "m", "n", "o", "p", "q", "r", "s", "t", "u", "v", "w", "x", "y", "z">>

\* the characters of the strings the stores and their callers hold
Chars(str) ==
    CASE str = "Bourbon" -> <<"B", "o", "u", "r", "b", "o", "n">>
      [] str = "Valois" -> <<"V", "a", "l", "o", "i", "s">>
      [] str = "Windsor" -> <<"W", "i", "n", "d", "s", "o", "r">>
      [] str = "bour" -> <<"b", "o", "u", "r">>
      [] str = "BOURBON" -> <<"B", "O", "U", "R", "B", "O", "N">>
      [] str = "ois" -> <<"o", "i", "s">>
      [] str = "Tudor" -> <<"T", "u", "d", "o", "r">>
      [] str = "Loire Valley" -> <<"L", "o", "i", "r", "e", " ", "V", "a", "l", "l", "e", "y">>
      [] str = "Normandy" -> <<"N", "o", "r", "m", "a", "n", "d", "y">>
      [] str = "Ile-de-France" -> <<"I", "l", "e", "-", "d", "e", "-", "F", "r", "a", "n", "c", "e">>
      [] str = "loire" -> <<"l", "o", "i", "r", "e">>
      [] str = "ILE" -> <<"I", "L", "E">>
      [] str = "Val" -> <<"V", "a", "l">>
      [] str = "Alsace" -> <<"A", "l", "s", "a", "c", "e">>
      [] OTHER -> <<>>

\* String.prototype.toLowerCase, character by character
toLowerCase(chars) ==
    [i \in DOMAIN chars |->
        IF \E k \in DOMAIN UpperCase : UpperCase[k] = chars[i]
        THEN LowerCase[CHOOSE k \in DOMAIN UpperCase : UpperCase[k] = chars[i]]
        ELSE chars[i]]

\* String.prototype.includes: the characters of part stand somewhere in whole
includesString(whole, part) ==
    \E k \in 0..(Len(whole) - Len(part)) : SubSeq(whole, k + 1, k + Len(part)) = part

---------------------------------------------------------------------------
(* castle-service: db.ts *)

\* generateId: `castle_${Date.now()}_${Math.random()...}`; n stands for the
\* clock reading and the random draw of one call
generateCastleId(n) == "castle_" \o ToString(n)

\* The records a verification run loads (dataSetupCallback)
FixtureCastle(i) ==
    [id |-> "castle-" \o ToString(i),
     name |-> "Castle " \o ToString(i),
     region |-> IF i % 2 = 1 THEN "Loire Valley" ELSE "Normandy",
     yearBuilt |-> 1500 + 100 * (i % 2),
     description |-> "Fixture castle"]

CastleFixtureLists ==
    {[i \in DOMAIN s |-> FixtureCastle(s[i])] :
        s \in SeqsNoRep(1..NumFixtureCastles, NumFixtureCastles)}

\* CreateCastleRequest values of the declared type: no id
CastleInputs ==
    {[id |-> None, name |-> "Chambord", region |-> "Loire Valley",
      yearBuilt |-> 1519, description |-> None],
     [id |-> None, name |-> "Chenonceau", region |-> "Loire Valley",
      yearBuilt |-> 1522, description |-> Some("Spans the Cher")]}

\* What the POST /castles handler passes to createCastle: the request body as
\* it came, which may carry an id of the client's choosing
CastleBodies ==
    CastleInputs \cup
        {[id |-> Some(FixtureCastle(1).id), name |-> "Amboise", region |-> "Loire Valley",
          yearBuilt |-> 1498, description |-> Some("")]}

CastleIds ==
    {FixtureCastle(i).id : i \in 1..NumFixtureCastles}
        \cup {generateCastleId(n) : n \in 1..NumGeneratedIds}
        \cup {"non-existent-id"}

getAllCastles(cs) == cs

getCastleById(cs, id) == Find(cs, id)

\* { id: generateId(), ...castleData, description: castleData.description || "A beautiful castle" }
newCastle(castleData, generated) ==
    [id |-> Coalesce(castleData.id, generated),
     name |-> castleData.name,
     region |-> castleData.region,
     yearBuilt |-> castleData.yearBuilt,
     description |-> OrString(castleData.description, "A beautiful castle")]

createCastle(castleData, n) ==
    /\ process = "castle-service"
    /\ Len(castles) < MaxCastles
    /\ castles' = Append(castles, newCastle(castleData, generateCastleId(n)))
    /\ last' = [op |-> "createCastle", arg |-> castleData,
                ret |-> newCastle(castleData, generateCastleId(n))]
    /\ UNCHANGED <<process, client, sourceCastles, loadedCastles, rulerVars>>

\* mutant: the delete removes every record with the id
deleteCastleRemovesAll(id) ==
    /\ process = "castle-service"
    /\ castles' = SelectSeq(castles, LAMBDA castle : castle.id # id)
    /\ last' = [op |-> "deleteCastle", id |-> id,
                ret |-> FindIndex(castles, id) # -1]
    /\ UNCHANGED <<process, client, sourceCastles, loadedCastles, rulerVars>>

\* mutant: the delete also takes the castle's id out of every ruler's castleIds
deleteCastleCascades(id) ==
    /\ process = "castle-service"
    /\ castles' = IF FindIndex(castles, id) = -1 THEN castles
                  ELSE Splice(castles, FindIndex(castles, id))
    /\ heap' = IF FindIndex(castles, id) = -1 THEN heap
               ELSE [a \in DOMAIN heap |-> SelectSeq(heap[a], LAMBDA c : c # id)]
    /\ last' = [op |-> "deleteCastle", id |-> id,
                ret |-> FindIndex(castles, id) # -1]
    /\ UNCHANGED <<process, client, sourceCastles, loadedCastles,
                   rulers, sourceRulers, loadedRulers>>

deleteCastle(id) ==
    /\ process = "castle-service"
    /\ castles' = IF FindIndex(castles, id) = -1 THEN castles
                  ELSE Splice(castles, FindIndex(castles, id))
    /\ last' = [op |-> "deleteCastle", id |-> id,
                ret |-> FindIndex(castles, id) # -1]
    /\ UNCHANGED <<process, client, sourceCastles, loadedCastles, rulerVars>>

\* mutant: the load forgets the source collection
setCastlesCurrentOnly(data) ==
    /\ process = "castle-service"
    /\ castles' = data
    /\ loadedCastles' = Some(data)
    /\ last' = [op |-> "setCastles", arg |-> data]
    /\ UNCHANGED <<process, client, sourceCastles, rulerVars>>

\* mutant: the load as it stands between its two assignments
setCastlesSourceOnly(data) ==
    /\ process = "castle-service"
    /\ sourceCastles' = data
    /\ loadedCastles' = Some(data)
    /\ last' = [op |-> "setCastles", arg |-> data]
    /\ UNCHANGED <<process, client, castles, rulerVars>>

setCastles(data) ==
    /\ process = "castle-service"
    /\ sourceCastles' = data
    /\ castles' = data
    /\ loadedCastles' = Some(data)
    /\ last' = [op |-> "setCastles", arg |-> data]
    /\ UNCHANGED <<process, client, rulerVars>>

resetCastles ==
    /\ process = "castle-service"
    /\ castles' = sourceCastles
    /\ last' = [op |-> "resetCastles", before |-> castles]
    /\ UNCHANGED <<process, client, sourceCastles, loadedCastles, rulerVars>>

readCastleById(id) ==
    /\ process = "castle-service"
    /\ last' = [op |-> "getCastleById", id |-> id, ret |-> getCastleById(castles, id)]
    /\ UNCHANGED <<process, client, castleVars, rulerVars>>

readAllCastles ==
    /\ process = "castle-service"
    /\ last' = [op |-> "getAllCastles", ret |-> getAllCastles(castles)]
    /\ UNCHANGED <<process, client, castleVars, rulerVars>>

CastleNext ==
    \/ \E castleData \in CastleBodies, n \in 1..NumGeneratedIds : createCastle(castleData, n)
    \/ \E id \in CastleIds : deleteCastle(id)
    \/ \E data \in CastleFixtureLists : setCastles(data)
    \/ resetCastles
    \/ \E id \in CastleIds : readCastleById(id)
    \/ readAllCastles

---------------------------------------------------------------------------
(* castle-service: openapi-spec.ts, POST /castles *)

\* The JSON bodies sent to POST /castles: a valid one, and that one with
\* name, region or yearBuilt missing, empty, of another type or out of range
ValidCastleBody ==
    [id |-> None, name |-> JsString("Chambord"), region |-> JsString("Loire Valley"),
     yearBuilt |-> JsNumber(1519), description |-> None]

RequestBodies ==
    {ValidCastleBody, [ValidCastleBody EXCEPT !.id = Some(FixtureCastle(1).id)]}
        \cup {[ValidCastleBody EXCEPT !.name = v] : v \in {JsUndefined, JsString(""), JsNumber(42)}}
        \cup {[ValidCastleBody EXCEPT !.region = v] :
                    v \in {JsUndefined, JsString(""), JsNumber(42)}}
        \cup {[ValidCastleBody EXCEPT !.yearBuilt = v] :
                    v \in {JsUndefined, JsString("1519"), JsNumber(0), JsNumber(500),
                           JsNumber(999), JsNumber(1000), JsNumber(2100), JsNumber(2101)}}

\* mutant: the range check lets 999 through
castleValidationErrorOffByOne(castleData) ==
    IF Falsy(castleData.name) \/ castleData.name.t # "string"
    THEN Some("Name is required and must be a string")
    ELSE IF Falsy(castleData.region) \/ castleData.region.t # "string"
    THEN Some("Region is required and must be a string")
    ELSE IF Falsy(castleData.yearBuilt) \/ castleData.yearBuilt.t # "number"
    THEN Some("Year built is required and must be a number")
    ELSE IF castleData.yearBuilt.n < 999 \/ castleData.yearBuilt.n > 2100
    THEN Some("Year built must be between 1000 and 2100")
    ELSE None

\* the validator of POST /castles: the message of the 400 response it
\* returns, or nothing when it lets the body through
castleValidationError(castleData) ==
    IF Falsy(castleData.name) \/ castleData.name.t # "string"
    THEN Some("Name is required and must be a string")
    ELSE IF Falsy(castleData.region) \/ castleData.region.t # "string"
    THEN Some("Region is required and must be a string")
    ELSE IF Falsy(castleData.yearBuilt) \/ castleData.yearBuilt.t # "number"
    THEN Some("Year built is required and must be a number")
    ELSE IF castleData.yearBuilt.n < 1000 \/ castleData.yearBuilt.n > 2100
    THEN Some("Year built must be between 1000 and 2100")
    ELSE None

\* c.req.valid("json"): the validated body, read as a CreateCastleRequest
validCastleData(body) ==
    [id |-> body.id, name |-> body.name.s, region |-> body.region.s,
     yearBuilt |-> body.yearBuilt.n, description |-> body.description]

\* app.post("/castles", validator, handler)
postCastles(body, n) ==
    /\ process = "castle-service"
    /\ IF castleValidationError(body) # None
       THEN /\ castles' = castles
            /\ last' = [op |-> "POST /castles", body |-> body, status |-> 400,
                        error |-> "validation_error",
                        message |-> castleValidationError(body)[1]]
       ELSE /\ Len(castles) < MaxCastles
            /\ castles' = Append(castles,
                                 newCastle(validCastleData(body), generateCastleId(n)))
            /\ last' = [op |-> "POST /castles", body |-> body, status |-> 201,
                        ret |-> newCastle(validCastleData(body), generateCastleId(n))]
    /\ UNCHANGED <<process, client, sourceCastles, loadedCastles, rulerVars>>

\* the 404 body of GET and DELETE /castles/:id
castleNotFound(op, id) ==
    [op |-> op, id |-> id, status |-> 404,
     error |-> "not_found", message |-> "Castle not found"]

\* app.get("/castles/:id"): 404 when !castle, else the castle
getCastlesId(id) ==
    /\ process = "castle-service"
    /\ last' = IF getCastleById(castles, id) = None
               THEN castleNotFound("GET /castles/:id", id)
               ELSE [op |-> "GET /castles/:id", id |-> id, status |-> 200,
                     ret |-> getCastleById(castles, id)[1]]
    /\ UNCHANGED <<process, client, castleVars, rulerVars>>

\* app.delete("/castles/:id"): deleteCastle(id), 404 when !deleted, else 204
deleteCastlesId(id) ==
    /\ process = "castle-service"
    /\ castles' = IF FindIndex(castles, id) = -1 THEN castles
                  ELSE Splice(castles, FindIndex(castles, id))
    /\ last' = IF FindIndex(castles, id) = -1
               THEN castleNotFound("DELETE /castles/:id", id)
               ELSE [op |-> "DELETE /castles/:id", id |-> id, status |-> 204]
    /\ UNCHANGED <<process, client, sourceCastles, loadedCastles, rulerVars>>

\* The REST requests on single castles, after loads and POSTs
RestNext ==
    \/ \E data \in CastleFixtureLists : setCastles(data)
    \/ \E body \in RequestBodies, n \in 1..NumGeneratedIds : postCastles(body, n)
    \/ \E id \in CastleIds : getCastlesId(id)
    \/ \E id \in CastleIds : deleteCastlesId(id)

---------------------------------------------------------------------------
(* castle-graphql: db.ts *)

\* generateId: `ruler_${Date.now()}_${Math.random()...}`
generateRulerId(n) == "ruler_" \o ToString(n)

Versailles == "550e8400-e29b-41d4-a716-446655440000"
Louvre == "550e8400-e29b-41d4-a716-446655440001"
Fontainebleau == "550e8400-e29b-41d4-a716-446655440002"

\* rulers.json, the built-in dataset: three Bourbon kings
rulerData ==
    <<[id |-> "ruler-louis-xiv-001", name |-> "Louis XIV", title |-> "The Sun King",
       reignStart |-> 1643, reignEnd |-> Some(1715), house |-> "Bourbon",
       castleIds |-> <<Versailles>>,
       description |-> Some("Known as the Sun King"),
       achievements |-> <<"Built Palace of Versailles">>],
      [id |-> "ruler-louis-xiii-001", name |-> "Louis XIII", title |-> "The Just",
       reignStart |-> 1610, reignEnd |-> Some(1643), house |-> "Bourbon",
       castleIds |-> <<Louvre>>,
       description |-> Some("Father of Louis XIV"),
       achievements |-> <<"Strengthened royal authority">>],
      [id |-> "ruler-henry-iv-001", name |-> "Henry IV", title |-> "The Good King Henry",
       reignStart |-> 1589, reignEnd |-> Some(1610), house |-> "Bourbon",
       castleIds |-> <<Fontainebleau>>,
       description |-> Some("First Bourbon king of France"),
       achievements |-> <<"Edict of Nantes">>]>>

\* The complete Ruler entities a verification run loads (dataSetupCallback):
\* a closed reign, a reign that ends in the year 0, an open reign, ...
FixtureRuler(i) ==
    [id |-> "ruler-" \o ToString(i),
     name |-> "Ruler " \o ToString(i),
     title |-> "King",
     reignStart |-> IF i % 3 = 1 THEN 1589 ELSE IF i % 3 = 2 THEN -30 ELSE 1990,
     reignEnd |-> IF i % 3 = 1 THEN Some(1610) ELSE IF i % 3 = 2 THEN Some(0) ELSE None,
     house |-> IF i % 2 = 1 THEN "Bourbon" ELSE "Valois",
     castleIds |-> IF i % 2 = 1 THEN <<Versailles>> ELSE <<>>,
     description |-> Some(""),
     achievements |-> <<>>]

FixtureLists(n) ==
    {[i \in DOMAIN s |-> FixtureRuler(s[i])] : s \in SeqsNoRep(1..n, n)}

RulerFixtureLists == FixtureLists(NumFixtureRulers)

QueryFixtureLists == FixtureLists(NumQueryFixtures)

\* CreateRulerRequest values as the callers pass them
RulerInputs ==
    {[id |-> None, name |-> "Louis XV", title |-> "The Beloved", reignStart |-> 1715,
      reignEnd |-> Some(1774), house |-> "Bourbon", castleIds |-> None,
      description |-> None, achievements |-> None],
     [id |-> None, name |-> "Charles III", title |-> "King", reignStart |-> 2022,
      reignEnd |-> None, house |-> "Windsor", castleIds |-> Some(<<Versailles>>),
      description |-> Some("Reigning"), achievements |-> Some(<<"Coronation">>)]}

\* UpdateRulerRequest values as the callers pass them
NoUpdates ==
    [name |-> None, title |-> None, reignStart |-> None, reignEnd |-> None,
     house |-> None, description |-> None, achievements |-> None]

RulerUpdates ==
    {[NoUpdates EXCEPT !.description = Some("X"), !.reignEnd = Some(0)]}

RulerIds ==
    {rulerData[i].id : i \in DOMAIN rulerData}
        \cup {FixtureRuler(i).id : i \in 1..NumFixtureRulers}
        \cup {generateRulerId(n) : n \in 1..NumGeneratedIds}
        \cup {"non-existent-id"}

RelatedCastleIds == {Versailles}

Years == {-40, 1600, 1700}

\* new Date().getFullYear()
CurrentYears == {2025, 2026}

\* The addresses of the castleIds arrays
Max(S) == CHOOSE m \in S : \A n \in S : n <= m

Addresses ==
    1..(MaxRulers + Max({Len(rulerData), NumFixtureRulers, NumQueryFixtures}))

\* the addresses a collection's records hold
Held(coll) == {coll[i].castleIds : i \in DOMAIN coll}

\* an address no record of either collection holds: a new array
NewAddress(rs, srcs) ==
    CHOOSE a \in Addresses :
        /\ a \notin Held(rs) \cup Held(srcs)
        /\ \A b \in Addresses : b < a => b \in Held(rs) \cup Held(srcs)

\* arrays no record holds any more are unreachable
Collect(h, rs, srcs) ==
    [a \in Addresses |-> IF a \in Held(rs) \cup Held(srcs) THEN h[a] ELSE <<>>]

\* a record as a caller reads it: castleIds is the array's content
Deref(r, h) == [r EXCEPT !.castleIds = h[r.castleIds]]

\* a collection as a caller reads it
View(coll, h) == [i \in DOMAIN coll |-> Deref(coll[i], h)]

\* a list of record values placed in memory, record i's castleIds at address i
Place(data) == [i \in DOMAIN data |-> [data[i] EXCEPT !.castleIds = i]]

PlacedArrays(data) ==
    [a \in Addresses |-> IF a <= Len(data) THEN data[a].castleIds ELSE <<>>]

getAllRulers(rs) == rs

getRulerById(rs, id) == Find(rs, id)

getRulersByCastleFindsOne(rs, h, castleId) ==
    LET found == SelectSeq(rs, LAMBDA ruler : Includes(h[ruler.castleIds], castleId))
    IN  IF found = <<>> THEN <<>> ELSE <<found[1]>>

getRulersByCastle(rs, h, castleId) ==
    SelectSeq(rs, LAMBDA ruler : Includes(h[ruler.castleIds], castleId))

getRulersByHouseCaseSensitive(rs, house) ==
    SelectSeq(rs, LAMBDA ruler : includesString(Chars(ruler.house), Chars(house)))

\* rulers.filter(ruler => ruler.house.toLowerCase().includes(house.toLowerCase()))
getRulersByHouse(rs, house) ==
    SelectSeq(rs, LAMBDA ruler :
        includesString(toLowerCase(Chars(ruler.house)), toLowerCase(Chars(house))))

\* ruler.reignEnd || new Date().getFullYear()
rulerEnd(ruler, currentYear) ==
    IF ruler.reignEnd = None \/ FalsyNumber(ruler.reignEnd[1])
    THEN currentYear ELSE ruler.reignEnd[1]

\* mutant: the reign has to start inside the period
overlapsStartInside(ruler, startYear, endYear, currentYear) ==
    startYear <= ruler.reignStart /\ ruler.reignStart <= endYear

overlaps(ruler, startYear, endYear, currentYear) ==
    ruler.reignStart <= endYear /\ rulerEnd(ruler, currentYear) >= startYear

getRulersByPeriod(rs, startYear, endYear, currentYear) ==
    SelectSeq(rs, LAMBDA ruler : overlaps(ruler, startYear, endYear, currentYear))

\* { id: generateId(), ...rulerData, castleIds: ..., description: rulerData.description || '',
\*   achievements: rulerData.achievements || [] }, its castleIds array at address a
newRuler(input, generated, a) ==
    [id |-> Coalesce(input.id, generated),
     name |-> input.name,
     title |-> input.title,
     reignStart |-> input.reignStart,
     reignEnd |-> input.reignEnd,
     house |-> input.house,
     castleIds |-> a,
     description |-> Some(OrString(input.description, "")),
     achievements |-> Coalesce(input.achievements, <<>>)]

\* rulerData.castleIds || []
newCastleIds(input) == Coalesce(input.castleIds, <<>>)

createRuler(input, n) ==
    /\ process = "castle-graphql"
    /\ Len(rulers) < MaxRulers
    /\ LET a == NewAddress(rulers, sourceRulers)
           created == newRuler(input, generateRulerId(n), a)
       IN /\ rulers' = Append(rulers, created)
          /\ heap' = [heap EXCEPT ![a] = newCastleIds(input)]
          /\ last' = [op |-> "createRuler", arg |-> input,
                      ret |-> Deref(created, heap')]
    /\ UNCHANGED <<process, client, sourceRulers, loadedRulers, castleVars>>

\* the record updateRuler builds; castleIds stays the existing array
updatedRuler(existingRuler, updates) ==
    [id |-> existingRuler.id,
     name |-> Coalesce(updates.name, existingRuler.name),
     title |-> Coalesce(updates.title, existingRuler.title),
     reignStart |-> Coalesce(updates.reignStart, existingRuler.reignStart),
     reignEnd |-> IF updates.reignEnd = None THEN existingRuler.reignEnd
                  ELSE updates.reignEnd,
     house |-> Coalesce(updates.house, existingRuler.house),
     castleIds |-> existingRuler.castleIds,
     description |-> IF updates.description = None THEN existingRuler.description
                     ELSE updates.description,
     achievements |-> Coalesce(updates.achievements, existingRuler.achievements)]

\* mutant: the updated record is taken out and put back at the end
updateRulerMovesToEnd(id, updates) ==
    /\ process = "castle-graphql"
    /\ LET index == FindIndex(rulers, id) IN
        IF index = -1
        THEN /\ rulers' = rulers
             /\ last' = [op |-> "updateRuler", id |-> id, arg |-> updates, ret |-> None]
        ELSE /\ rulers' = Append(Splice(rulers, index), updatedRuler(rulers[index], updates))
             /\ last' = [op |-> "updateRuler", id |-> id, arg |-> updates,
                         ret |-> Some(Deref(updatedRuler(rulers[index], updates), heap))]
    /\ UNCHANGED <<process, client, sourceRulers, heap, loadedRulers, castleVars>>

updateRuler(id, updates) ==
    /\ process = "castle-graphql"
    /\ LET index == FindIndex(rulers, id) IN
        IF index = -1
        THEN /\ rulers' = rulers
             /\ last' = [op |-> "updateRuler", id |-> id, arg |-> updates, ret |-> None]
        ELSE /\ rulers' = [rulers EXCEPT ![index] = updatedRuler(rulers[index], updates)]
             /\ last' = [op |-> "updateRuler", id |-> id, arg |-> updates,
                         ret |-> Some(Deref(updatedRuler(rulers[index], updates), heap))]
    /\ UNCHANGED <<process, client, sourceRulers, heap, loadedRulers, castleVars>>

\* mutant: the delete also removes the record from the source collection
deleteRulerFromSource(id) ==
    /\ process = "castle-graphql"
    /\ rulers' = IF FindIndex(rulers, id) = -1 THEN rulers
                 ELSE Splice(rulers, FindIndex(rulers, id))
    /\ sourceRulers' = IF FindIndex(sourceRulers, id) = -1 THEN sourceRulers
                       ELSE Splice(sourceRulers, FindIndex(sourceRulers, id))
    /\ heap' = Collect(heap, rulers', sourceRulers')
    /\ last' = [op |-> "deleteRuler", id |-> id, ret |-> FindIndex(rulers, id) # -1]
    /\ UNCHANGED <<process, client, loadedRulers, castleVars>>

\* mutant: no early return; splice(-1, 1) takes the last record out
deleteRulerUnguarded(id) ==
    /\ process = "castle-graphql"
    /\ rulers' = IF FindIndex(rulers, id) = -1 THEN SubSeq(rulers, 1, Len(rulers) - 1)
                 ELSE Splice(rulers, FindIndex(rulers, id))
    /\ heap' = Collect(heap, rulers', sourceRulers)
    /\ last' = [op |-> "deleteRuler", id |-> id, ret |-> TRUE]
    /\ UNCHANGED <<process, client, sourceRulers, loadedRulers, castleVars>>

deleteRuler(id) ==
    /\ process = "castle-graphql"
    /\ rulers' = IF FindIndex(rulers, id) = -1 THEN rulers
                 ELSE Splice(rulers, FindIndex(rulers, id))
    /\ heap' = Collect(heap, rulers', sourceRulers)
    /\ last' = [op |-> "deleteRuler", id |-> id, ret |-> FindIndex(rulers, id) # -1]
    /\ UNCHANGED <<process, client, sourceRulers, loadedRulers, castleVars>>

\* ruler.castleIds.push(castleId) unless it is included
pushed(arr, castleId) == IF Includes(arr, castleId) THEN arr ELSE Append(arr, castleId)

addCastleToRuler(rulerId, castleId) ==
    /\ process = "castle-graphql"
    /\ LET ruler == getRulerById(rulers, rulerId) IN
        IF ruler = None
        THEN /\ heap' = heap
             /\ last' = [op |-> "addCastleToRuler", id |-> rulerId,
                         castleId |-> castleId, ret |-> None]
        ELSE /\ heap' = [heap EXCEPT ![ruler[1].castleIds] = pushed(@, castleId)]
             /\ last' = [op |-> "addCastleToRuler", id |-> rulerId,
                         castleId |-> castleId, ret |-> Some(Deref(ruler[1], heap'))]
    /\ UNCHANGED <<process, client, rulers, sourceRulers, loadedRulers, castleVars>>

\* ruler.castleIds.splice(index, 1) when indexOf finds it
spliced(arr, castleId) ==
    IF IndexOf(arr, castleId) = -1 THEN arr ELSE Splice(arr, IndexOf(arr, castleId))

removeCastleFromRuler(rulerId, castleId) ==
    /\ process = "castle-graphql"
    /\ LET ruler == getRulerById(rulers, rulerId) IN
        IF ruler = None
        THEN /\ heap' = heap
             /\ last' = [op |-> "removeCastleFromRuler", id |-> rulerId,
                         castleId |-> castleId, ret |-> None]
        ELSE /\ heap' = [heap EXCEPT ![ruler[1].castleIds] = spliced(@, castleId)]
             /\ last' = [op |-> "removeCastleFromRuler", id |-> rulerId,
                         castleId |-> castleId, ret |-> Some(Deref(ruler[1], heap'))]
    /\ UNCHANGED <<process, client, rulers, sourceRulers, loadedRulers, castleVars>>

\* sourceRulers = [...data]; rulers = [...data]: two lists of the same records
setRulers(data) ==
    /\ process = "castle-graphql"
    /\ sourceRulers' = Place(data)
    /\ rulers' = Place(data)
    /\ heap' = PlacedArrays(data)
    /\ loadedRulers' = Some(data)
    /\ last' = [op |-> "setRulers", arg |-> data]
    /\ UNCHANGED <<process, client, castleVars>>

\* rulers = [...sourceRulers]
resetRulers ==
    /\ process = "castle-graphql"
    /\ rulers' = sourceRulers
    /\ heap' = Collect(heap, rulers', sourceRulers)
    /\ last' = [op |-> "resetRulers", before |-> View(rulers, heap)]
    /\ UNCHANGED <<process, client, sourceRulers, loadedRulers, castleVars>>

readAllRulers ==
    /\ process = "castle-graphql"
    /\ last' = [op |-> "getAllRulers", ret |-> View(getAllRulers(rulers), heap)]
    /\ UNCHANGED <<process, client, castleVars, rulerVars>>

readRulerById(id) ==
    /\ process = "castle-graphql"
    /\ last' = [op |-> "getRulerById", id |-> id,
                ret |-> View(getRulerById(rulers, id), heap)]
    /\ UNCHANGED <<process, client, castleVars, rulerVars>>

readRulersByCastle(castleId) ==
    /\ process = "castle-graphql"
    /\ last' = [op |-> "getRulersByCastle", castleId |-> castleId,
                ret |-> View(getRulersByCastle(rulers, heap, castleId), heap)]
    /\ UNCHANGED <<process, client, castleVars, rulerVars>>

readRulersByHouse(house) ==
    /\ process = "castle-graphql"
    /\ last' = [op |-> "getRulersByHouse", house |-> house,
                ret |-> View(getRulersByHouse(rulers, house), heap)]
    /\ UNCHANGED <<process, client, castleVars, rulerVars>>

readRulersByPeriod(startYear, endYear, currentYear) ==
    /\ process = "castle-graphql"
    /\ last' = [op |-> "getRulersByPeriod", startYear |-> startYear,
                endYear |-> endYear, currentYear |-> currentYear,
                ret |-> View(getRulersByPeriod(rulers, startYear, endYear, currentYear), heap)]
    /\ UNCHANGED <<process, client, castleVars, rulerVars>>

---------------------------------------------------------------------------
(* castle-graphql: resolvers.ts, the mutations *)

\* The input arguments of the createRuler mutation: name, title, house and
\* reignStart may be missing or empty as well
ValidCreateInput ==
    [name |-> Some("Louis XV"), title |-> Some("The Beloved"), reignStart |-> Some(1715),
     reignEnd |-> Some(1774), house |-> Some("Bourbon"), castleIds |-> None,
     description |-> None, achievements |-> None]

CreateInputs ==
    {ValidCreateInput}
        \cup {[ValidCreateInput EXCEPT !.name = v] : v \in {None, Some("")}}
        \cup {[ValidCreateInput EXCEPT !.title = v] : v \in {None, Some("")}}
        \cup {[ValidCreateInput EXCEPT !.house = v] : v \in {None, Some("")}}
        \cup {[ValidCreateInput EXCEPT !.reignStart = v] : v \in {None, Some(0)}}
        \cup {[ValidCreateInput EXCEPT !.reignEnd = v] : v \in {Some(0), Some(1700)}}

\* The input arguments of the updateRuler mutation: reignEnd alone,
\* reignStart alone, and both
UpdateInputs ==
    {[NoUpdates EXCEPT !.reignEnd = Some(1000)],
     [NoUpdates EXCEPT !.reignStart = Some(1800)],
     [NoUpdates EXCEPT !.reignStart = Some(1700), !.reignEnd = Some(1600)],
     [NoUpdates EXCEPT !.reignStart = Some(1700), !.reignEnd = Some(0)]}

MutationRulerIds == {rulerData[1].id, generateRulerId(1), "non-existent-id"}

MissingRequiredFields ==
    "Missing required fields: name, title, house, and reignStart are required"

ReignEndBeforeStart == "reignEnd cannot be before reignStart"

\* `Ruler with ID ${id} not found`
RulerNotFound(id) == "Ruler with ID " \o id \o " not found"

\* the checks of Mutation.createRuler: the message of the error thrown, if any
createRulerError(input) ==
    IF \/ FalsyOptString(input.name)
       \/ FalsyOptString(input.title)
       \/ FalsyOptString(input.house)
       \/ FalsyOptNumber(input.reignStart)
    THEN Some(MissingRequiredFields)
    ELSE IF ~FalsyOptNumber(input.reignEnd) /\ input.reignEnd[1] < input.reignStart[1]
    THEN Some(ReignEndBeforeStart)
    ELSE None

\* the input that passed the checks, as the CreateRulerRequest the store gets
asCreateRulerRequest(input) ==
    [id |-> None, name |-> input.name[1], title |-> input.title[1],
     reignStart |-> input.reignStart[1], reignEnd |-> input.reignEnd,
     house |-> input.house[1], castleIds |-> input.castleIds,
     description |-> input.description, achievements |-> input.achievements]

\* resolvers.Mutation.createRuler
MutationCreateRuler(input, n) ==
    /\ process = "castle-graphql"
    /\ IF createRulerError(input) # None
       THEN /\ rulers' = rulers
            /\ heap' = heap
            /\ last' = [op |-> "Mutation.createRuler", input |-> input,
                        error |-> createRulerError(input)]
       ELSE /\ Len(rulers) < MaxRulers
            /\ LET a == NewAddress(rulers, sourceRulers)
                   created == newRuler(asCreateRulerRequest(input), generateRulerId(n), a)
               IN /\ rulers' = Append(rulers, created)
                  /\ heap' = [heap EXCEPT ![a] = newCastleIds(asCreateRulerRequest(input))]
                  /\ last' = [op |-> "Mutation.createRuler", input |-> input,
                              error |-> None, ret |-> Deref(created, heap')]
    /\ UNCHANGED <<process, client, sourceRulers, loadedRulers, castleVars>>

\* the check of Mutation.updateRuler: the message of the error thrown, if any
updateRulerError(input) ==
    IF /\ ~FalsyOptNumber(input.reignStart)
       /\ ~FalsyOptNumber(input.reignEnd)
       /\ input.reignEnd[1] < input.reignStart[1]
    THEN Some(ReignEndBeforeStart)
    ELSE None

\* mutant: the store is updated before the reign dates are looked at
MutationUpdateRulerWritesFirst(id, input) ==
    /\ process = "castle-graphql"
    /\ LET index == FindIndex(rulers, id) IN
        /\ rulers' = IF index = -1 THEN rulers
                      ELSE [rulers EXCEPT ![index] = updatedRuler(rulers[index], input)]
        /\ last' = IF updateRulerError(input) # None
                    THEN [op |-> "Mutation.updateRuler", id |-> id, input |-> input,
                          error |-> updateRulerError(input)]
                    ELSE IF index = -1
                    THEN [op |-> "Mutation.updateRuler", id |-> id, input |-> input,
                          error |-> Some(RulerNotFound(id))]
                    ELSE [op |-> "Mutation.updateRuler", id |-> id, input |-> input,
                          error |-> None,
                          ret |-> Deref(updatedRuler(rulers[index], input), heap)]
    /\ UNCHANGED <<process, client, sourceRulers, heap, loadedRulers, castleVars>>

\* resolvers.Mutation.updateRuler
MutationUpdateRuler(id, input) ==
    /\ process = "castle-graphql"
    /\ LET index == FindIndex(rulers, id) IN
        IF updateRulerError(input) # None
        THEN /\ rulers' = rulers
             /\ last' = [op |-> "Mutation.updateRuler", id |-> id, input |-> input,
                         error |-> updateRulerError(input)]
        ELSE IF index = -1
        THEN /\ rulers' = rulers
             /\ last' = [op |-> "Mutation.updateRuler", id |-> id, input |-> input,
                         error |-> Some(RulerNotFound(id))]
        ELSE /\ rulers' = [rulers EXCEPT ![index] = updatedRuler(rulers[index], input)]
             /\ last' = [op |-> "Mutation.updateRuler", id |-> id, input |-> input,
                         error |-> None,
                         ret |-> Deref(updatedRuler(rulers[index], input), heap)]
    /\ UNCHANGED <<process, client, sourceRulers, heap, loadedRulers, castleVars>>

\* resolvers.Query.getRuler
QueryGetRuler(id) ==
    /\ process = "castle-graphql"
    /\ last' = IF getRulerById(rulers, id) = None
               THEN [op |-> "Query.getRuler", id |-> id, error |-> Some(RulerNotFound(id))]
               ELSE [op |-> "Query.getRuler", id |-> id, error |-> None,
                     ret |-> Deref(getRulerById(rulers, id)[1], heap)]
    /\ UNCHANGED <<process, client, castleVars, rulerVars>>

\* mutant: a delete that found nothing reports success
MutationDeleteRulerAlwaysSucceeds(id) ==
    /\ process = "castle-graphql"
    /\ rulers' = IF FindIndex(rulers, id) = -1 THEN rulers
                 ELSE Splice(rulers, FindIndex(rulers, id))
    /\ heap' = Collect(heap, rulers', sourceRulers)
    /\ last' = [op |-> "Mutation.deleteRuler", id |-> id, error |-> None, ret |-> TRUE]
    /\ UNCHANGED <<process, client, sourceRulers, loadedRulers, castleVars>>

\* resolvers.Mutation.deleteRuler
MutationDeleteRuler(id) ==
    /\ process = "castle-graphql"
    /\ rulers' = IF FindIndex(rulers, id) = -1 THEN rulers
                 ELSE Splice(rulers, FindIndex(rulers, id))
    /\ heap' = Collect(heap, rulers', sourceRulers)
    /\ last' = IF FindIndex(rulers, id) = -1
               THEN [op |-> "Mutation.deleteRuler", id |-> id,
                     error |-> Some(RulerNotFound(id))]
               ELSE [op |-> "Mutation.deleteRuler", id |-> id, error |-> None, ret |-> TRUE]
    /\ UNCHANGED <<process, client, sourceRulers, loadedRulers, castleVars>>

\* resolvers.Mutation.addCastleToRuler
MutationAddCastleToRuler(rulerId, castleId) ==
    /\ process = "castle-graphql"
    /\ LET ruler == getRulerById(rulers, rulerId) IN
        IF ruler = None
        THEN /\ heap' = heap
             /\ last' = [op |-> "Mutation.addCastleToRuler", id |-> rulerId,
                         castleId |-> castleId, error |-> Some(RulerNotFound(rulerId))]
        ELSE /\ heap' = [heap EXCEPT ![ruler[1].castleIds] = pushed(@, castleId)]
             /\ last' = [op |-> "Mutation.addCastleToRuler", id |-> rulerId,
                         castleId |-> castleId, error |-> None,
                         ret |-> Deref(ruler[1], heap')]
    /\ UNCHANGED <<process, client, rulers, sourceRulers, loadedRulers, castleVars>>

\* resolvers.Mutation.removeCastleFromRuler
MutationRemoveCastleFromRuler(rulerId, castleId) ==
    /\ process = "castle-graphql"
    /\ LET ruler == getRulerById(rulers, rulerId) IN
        IF ruler = None
        THEN /\ heap' = heap
             /\ last' = [op |-> "Mutation.removeCastleFromRuler", id |-> rulerId,
                         castleId |-> castleId, error |-> Some(RulerNotFound(rulerId))]
        ELSE /\ heap' = [heap EXCEPT ![ruler[1].castleIds] = spliced(@, castleId)]
             /\ last' = [op |-> "Mutation.removeCastleFromRuler", id |-> rulerId,
                         castleId |-> castleId, error |-> None,
                         ret |-> Deref(ruler[1], heap')]
    /\ UNCHANGED <<process, client, rulers, sourceRulers, loadedRulers, castleVars>>

\* The resolvers that take a ruler id, after a load or on the built-in dataset
ResolversNext ==
    \/ \E data \in RulerFixtureLists : setRulers(data)
    \/ \E id \in MutationRulerIds : QueryGetRuler(id)
    \/ \E id \in MutationRulerIds, input \in UpdateInputs : MutationUpdateRuler(id, input)
    \/ \E id \in MutationRulerIds : MutationDeleteRuler(id)
    \/ \E id \in MutationRulerIds, castleId \in RelatedCastleIds \cup {Louvre} :
            MutationAddCastleToRuler(id, castleId)
    \/ \E id \in MutationRulerIds, castleId \in RelatedCastleIds \cup {Louvre} :
            MutationRemoveCastleFromRuler(id, castleId)

\* The requests that go through validation: POST /castles and the createRuler
\* and updateRuler mutations, after a load or on the built-in dataset
ValidationNext ==
    \/ \E body \in RequestBodies, n \in 1..NumGeneratedIds : postCastles(body, n)
    \/ \E data \in RulerFixtureLists : setRulers(data)
    \/ \E input \in CreateInputs, n \in 1..NumGeneratedIds : MutationCreateRuler(input, n)
    \/ \E id \in MutationRulerIds, input \in UpdateInputs : MutationUpdateRuler(id, input)

---------------------------------------------------------------------------

RulerNext ==
    \/ \E input \in RulerInputs, n \in 1..NumGeneratedIds : createRuler(input, n)
    \/ \E id \in RulerIds, updates \in RulerUpdates : updateRuler(id, updates)
    \/ \E id \in RulerIds : deleteRuler(id)
    \/ \E id \in RulerIds, castleId \in RelatedCastleIds : addCastleToRuler(id, castleId)
    \/ \E id \in RulerIds, castleId \in RelatedCastleIds : removeCastleFromRuler(id, castleId)
    \/ \E data \in RulerFixtureLists : setRulers(data)
    \/ resetRulers
    \/ readAllRulers
    \/ \E id \in RulerIds : readRulerById(id)

\* set, reset, create and delete only, in both stores
CreateDeleteNext ==
    \/ \E castleData \in CastleInputs, n \in 1..NumGeneratedIds : createCastle(castleData, n)
    \/ \E id \in CastleIds : deleteCastle(id)
    \/ \E data \in CastleFixtureLists : setCastles(data)
    \/ resetCastles
    \/ readAllCastles
    \/ \E input \in RulerInputs, n \in 1..NumGeneratedIds : createRuler(input, n)
    \/ \E id \in RulerIds : deleteRuler(id)
    \/ \E data \in RulerFixtureLists : setRulers(data)
    \/ resetRulers
    \/ readAllRulers

\* The queries, on the built-in dataset and on every loaded fixture list
\* the castle ids and the house names the queries are asked for
QueryCastleIds == RelatedCastleIds \cup {Louvre}

QueryHouses == {"bour", "BOURBON", "ois", "Tudor", ""}

QueryNext ==
    \/ \E data \in QueryFixtureLists : setRulers(data)
    \/ \E castleId \in QueryCastleIds : readRulersByCastle(castleId)
    \/ \E house \in QueryHouses : readRulersByHouse(house)
    \/ \E startYear \in Years, endYear \in Years, currentYear \in CurrentYears :
            readRulersByPeriod(startYear, endYear, currentYear)

\* The castle ids the association calls are made with
AssociationCastleIds == {Versailles, Louvre}

\* CreateRulerRequest values whose castleIds is whatever list the caller sent
AssociationInputs ==
    {[id |-> None, name |-> "Louis XV", title |-> "The Beloved", reignStart |-> 1715,
      reignEnd |-> Some(1774), house |-> "Bourbon", castleIds |-> castleIds,
      description |-> None, achievements |-> None] :
        castleIds \in {None, Some(<<Louvre, Versailles>>), Some(<<Versailles, Versailles>>)}}

\* The associations: rulers created with a castleIds list, castles added and
\* removed, rulers updated, after a load or on the built-in dataset
AssociationsNext ==
    \/ \E data \in RulerFixtureLists : setRulers(data)
    \/ \E input \in AssociationInputs, n \in 1..NumGeneratedIds : createRuler(input, n)
    \/ \E id \in RulerIds, updates \in RulerUpdates : updateRuler(id, updates)
    \/ \E id \in RulerIds, castleId \in AssociationCastleIds : addCastleToRuler(id, castleId)
    \/ \E id \in RulerIds, castleId \in AssociationCastleIds :
            removeCastleFromRuler(id, castleId)

\* A caller of getAllRulers empties the list it was given (list.length = 0):
\* the list is [...rulers], an array of its own
callerTruncatesReturnedList ==
    /\ process = "castle-graphql"
    /\ last' = [op |-> "caller: getAllRulers().length = 0"]
    /\ UNCHANGED <<process, client, castleVars, rulerVars>>

\* A caller of getRulerById pushes a castle id onto the castleIds of the
\* record it was given: rulers.find returns the store's own record, so the
\* array is the one the store (and the source record it shares it with) holds
callerPushesToReturnedRuler(id, castleId) ==
    /\ process = "castle-graphql"
    /\ LET ruler == getRulerById(rulers, id) IN
        /\ ruler # None
        /\ ~Includes(heap[ruler[1].castleIds], castleId)
        /\ heap' = [heap EXCEPT ![ruler[1].castleIds] = Append(@, castleId)]
    /\ last' = [op |-> "caller: getRulerById(id).castleIds.push(castleId)",
                id |-> id, castleId |-> castleId]
    /\ UNCHANGED <<process, client, rulers, sourceRulers, loadedRulers, castleVars>>

\* The reads and what their callers do with the values they were given
CallersNext ==
    \/ \E data \in RulerFixtureLists : setRulers(data)
    \/ resetRulers
    \/ readAllRulers
    \/ \E id \in RulerIds : readRulerById(id)
    \/ callerTruncatesReturnedList
    \/ \E id \in RulerIds, castleId \in AssociationCastleIds :
            callerPushesToReturnedRuler(id, castleId)

\* castle-service and castle-graphql are two processes, each with its own
\* memory; the operating system runs now one, now the other
runProcess(p) ==
    /\ process # p
    /\ process' = p
    /\ UNCHANGED <<client, castleVars, rulerVars, last>>

\* castle ids of the two stores: one both know, one only rulers refer to
SystemCastleIds == {Versailles, Fontainebleau}

\* The two services side by side: castles deleted, loaded and reset in one,
\* rulers associated and queried in the other
SystemNext ==
    \/ \E p \in {"castle-service", "castle-graphql"} : runProcess(p)
    \/ \E id \in SystemCastleIds : deleteCastle(id)
    \/ \E data \in CastleFixtureLists : setCastles(data)
    \/ resetCastles
    \/ \E id \in RulerIds, castleId \in SystemCastleIds : addCastleToRuler(id, castleId)
    \/ \E castleId \in SystemCastleIds : readRulersByCastle(castleId)

\* The provider verification run: dataSetupCallback loads the fixtures once,
\* then before each recorded interaction its state handler resets the store
\* and the interaction performs one operation
\* the data of a complete Ruler entity of the normalized fixtures
CompleteEntity ==
    [id |-> JsString("ruler-1"), name |-> JsString("Ruler 1"), title |-> JsString("King"),
     reignStart |-> JsNumber(1589), reignEnd |-> JsNumber(1610),
     house |-> JsString("Bourbon"), castleIds |-> Some(<<Versailles>>),
     description |-> JsString("First Bourbon king"),
     achievements |-> Some(<<"Edict of Nantes">>)]

\* entity.data of the Ruler entities a run can be handed: complete ones, ones
\* without the optional fields, and partial ones recorded from mutations
RulerEntities ==
    {CompleteEntity,
     [CompleteEntity EXCEPT !.id = JsString("ruler-2"), !.reignEnd = JsUndefined,
                            !.castleIds = None, !.description = JsUndefined,
                            !.achievements = None],
     [CompleteEntity EXCEPT !.id = JsString("ruler-3"), !.reignStart = JsNumber(0),
                            !.reignEnd = JsString("1610"), !.description = JsString("")],
     [CompleteEntity EXCEPT !.id = JsUndefined],
     [CompleteEntity EXCEPT !.name = JsString("")],
     [CompleteEntity EXCEPT !.title = JsUndefined],
     [CompleteEntity EXCEPT !.house = JsUndefined],
     [CompleteEntity EXCEPT !.house = JsString("")],
     [CompleteEntity EXCEPT !.reignStart = JsString("1589")],
     [CompleteEntity EXCEPT !.reignStart = JsUndefined]}

\* fixtures.entities.Ruler || []
RulerEntityLists == SeqsNoRep(RulerEntities, MaxFixtureEntities)

\* mutant: the title is not looked at
isCompleteEntityWithoutTitle(data) ==
    ~(\/ Falsy(data.id)
      \/ Falsy(data.name)
      \/ Falsy(data.house)
      \/ data.reignStart.t # "number")

\* the entity is loaded unless !id || !name || !title || !house ||
\* typeof reignStart !== 'number'
isCompleteEntity(data) ==
    ~(\/ Falsy(data.id)
      \/ Falsy(data.name)
      \/ Falsy(data.title)
      \/ Falsy(data.house)
      \/ data.reignStart.t # "number")

\* const ruler = {...}: reignEnd only when it is a number, castleIds and
\* achievements [] unless arrays, description "" unless a string
rulerFromEntity(data) ==
    [id |-> data.id.s,
     name |-> data.name.s,
     title |-> data.title.s,
     reignStart |-> data.reignStart.n,
     reignEnd |-> IF data.reignEnd.t = "number" THEN Some(data.reignEnd.n) ELSE None,
     house |-> data.house.s,
     castleIds |-> IF data.castleIds # None THEN data.castleIds[1] ELSE <<>>,
     description |-> Some(IF data.description.t = "string" THEN data.description.s ELSE ""),
     achievements |-> IF data.achievements # None THEN data.achievements[1] ELSE <<>>]

\* rulerEntities.map(...).filter((ruler) => ruler !== null)
completeRulers(entities) ==
    LET complete == SelectSeq(entities, isCompleteEntity)
    IN  [i \in DOMAIN complete |-> rulerFromEntity(complete[i])]

\* dataSetupCallback of the castle-graphql verification: setRulers(rulers)
dataSetupCallback(entities) ==
    /\ process = "castle-graphql"
    /\ LET data == completeRulers(entities) IN
        /\ sourceRulers' = Place(data)
        /\ rulers' = Place(data)
        /\ heap' = PlacedArrays(data)
        /\ loadedRulers' = Some(data)
        /\ last' = [op |-> "dataSetupCallback", entities |-> entities, arg |-> data]
    /\ UNCHANGED <<process, client, castleVars>>

\* fixture loads, and the resets and reads that follow them
FixtureLoadNext ==
    \/ \E entities \in RulerEntityLists : dataSetupCallback(entities)
    \/ resetRulers
    \/ readAllRulers

\* dataSetupCallback: setCastles(castles) / setRulers(rulers), once per run
verificationSetup ==
    /\ last.op = "init"
    /\ \/ \E data \in CastleFixtureLists : setCastles(data)
       \/ \E data \in RulerFixtureLists : setRulers(data)

\* stateHandlers[operation] and cleanup: resetCastles() / resetRulers()
verificationStateHandler ==
    /\ last.op # "init"
    /\ (resetCastles \/ resetRulers)

\* one recorded interaction replayed against the store that was just reset
verificationInteraction ==
    /\ last.op \in {"resetCastles", "resetRulers"}
    /\ \/ \E castleData \in CastleBodies, n \in 1..NumGeneratedIds : createCastle(castleData, n)
       \/ \E id \in CastleIds : deleteCastle(id)
       \/ \E id \in CastleIds : readCastleById(id)
       \/ readAllCastles
       \/ \E input \in RulerInputs, n \in 1..NumGeneratedIds : createRuler(input, n)
       \/ \E id \in RulerIds, updates \in RulerUpdates : updateRuler(id, updates)
       \/ \E id \in RulerIds : deleteRuler(id)
       \/ \E id \in RulerIds, castleId \in AssociationCastleIds : addCastleToRuler(id, castleId)
       \/ \E id \in RulerIds, castleId \in AssociationCastleIds :
                removeCastleFromRuler(id, castleId)
       \/ readAllRulers
       \/ \E id \in RulerIds : readRulerById(id)

VerificationNext ==
    \/ verificationSetup
    \/ verificationStateHandler
    \/ verificationInteraction

---------------------------------------------------------------------------
(* castle-client: test/graphql-mock-server.ts, the resolvers of the mock *)

\* The mock's resolvers work on its own `rulers` array; here they are given
\* the rulers as a list of records with their castleIds, and give back the
\* query's result or the list the mutation leaves.

\* rulers.filter(ruler => ruler.castleIds.includes(castleId))
mockGetRulersByCastle(rs, castleId) ==
    SelectSeq(rs, LAMBDA ruler : Includes(ruler.castleIds, castleId))

\* rulers.filter(ruler => ruler.house === house)
mockGetRulersByHouse(rs, house) ==
    SelectSeq(rs, LAMBDA ruler : ruler.house = house)

\* reignEnd = ruler.reignEnd || new Date().getFullYear();
\* ruler.reignStart <= endYear && reignEnd >= startYear
mockGetRulersByPeriod(rs, startYear, endYear, currentYear) ==
    SelectSeq(rs, LAMBDA ruler :
        LET reignEnd == IF ruler.reignEnd = None \/ FalsyNumber(ruler.reignEnd[1])
                        THEN currentYear ELSE ruler.reignEnd[1]
        IN  ruler.reignStart <= endYear /\ reignEnd >= startYear)

\* { ...rulers[rulerIndex], ...input }: a field the input carries replaces
\* the ruler's
mockSpread(ruler, input) ==
    [id |-> ruler.id,
     name |-> IF input.name = None THEN ruler.name ELSE input.name[1],
     title |-> IF input.title = None THEN ruler.title ELSE input.title[1],
     reignStart |-> IF input.reignStart = None THEN ruler.reignStart
                    ELSE input.reignStart[1],
     reignEnd |-> IF input.reignEnd = None THEN ruler.reignEnd ELSE input.reignEnd,
     house |-> IF input.house = None THEN ruler.house ELSE input.house[1],
     castleIds |-> ruler.castleIds,
     description |-> IF input.description = None THEN ruler.description
                     ELSE input.description,
     achievements |-> IF input.achievements = None THEN ruler.achievements
                      ELSE input.achievements[1]]

\* resolvers.Mutation.updateRuler of the mock (it throws when findIndex is -1)
mockUpdateRuler(rs, id, input) ==
    IF FindIndex(rs, id) = -1 THEN rs
    ELSE [rs EXCEPT ![FindIndex(rs, id)] = mockSpread(@, input)]

\* if (!ruler.castleIds.includes(castleId)) ruler.castleIds.push(castleId)
mockAddCastleToRuler(rs, rulerId, castleId) ==
    IF FindIndex(rs, rulerId) = -1 THEN rs
    ELSE [rs EXCEPT ![FindIndex(rs, rulerId)].castleIds =
                IF Includes(@, castleId) THEN @ ELSE Append(@, castleId)]

\* ruler.castleIds = ruler.castleIds.filter(id => id !== castleId)
mockRemoveCastleFromRuler(rs, rulerId, castleId) ==
    IF FindIndex(rs, rulerId) = -1 THEN rs
    ELSE [rs EXCEPT ![FindIndex(rs, rulerId)].castleIds =
                SelectSeq(@, LAMBDA id : id # castleId)]

\* the provider's operations the mock stands in for
EquivalenceNext ==
    \/ \E data \in RulerFixtureLists : setRulers(data)
    \/ \E castleId \in QueryCastleIds : readRulersByCastle(castleId)
    \/ \E house \in QueryHouses \cup {"Bourbon"} : readRulersByHouse(house)
    \/ \E startYear \in Years, endYear \in Years, currentYear \in CurrentYears :
            readRulersByPeriod(startYear, endYear, currentYear)
    \/ \E id \in RulerIds, updates \in RulerUpdates : updateRuler(id, updates)
    \/ \E id \in RulerIds, castleId \in RelatedCastleIds : addCastleToRuler(id, castleId)
    \/ \E id \in RulerIds, castleId \in RelatedCastleIds :
            removeCastleFromRuler(id, castleId)

---------------------------------------------------------------------------
(* castle-client: castle-api.ts, getAllCastlesWithRulers *)

\* no call in progress
ClientIdle ==
    [pc |-> "idle", error |-> None, castles |-> <<>>, index |-> 0,
     castlesWithRulers |-> <<>>, failed |-> {}]

\* the castles castle-service holds when the client calls it
ClientCastle(i) ==
    [id |-> IF i = 1 THEN Versailles ELSE IF i = 2 THEN Louvre
            ELSE "castle-" \o ToString(i),
     name |-> "Castle " \o ToString(i),
     region |-> IF i % 2 = 1 THEN "Ile-de-France" ELSE "Loire Valley",
     yearBuilt |-> 1500 + 100 * (i % 2),
     description |-> "A beautiful castle"]

ClientCastleLists ==
    {[i \in DOMAIN s |-> ClientCastle(s[i])] :
        s \in SeqsNoRep(1..NumClientCastles, NumClientCastles)}

\* the rulers castle-graphql holds when the client calls it
ClientRulerLists == {rulerData} \cup RulerFixtureLists

\* this.rulersApiUrl, an optional constructor argument
RulersApiUrls == {None, Some("http://localhost:4002")}

RulersApiNotConfigured == "Rulers API URL not configured. Cannot fetch ruler data."

FailedToGetCastles == "Network error calling /castles"

\* { ...castle, rulers }
withRulers(castle, rs) ==
    [id |-> castle.id, name |-> castle.name, region |-> castle.region,
     yearBuilt |-> castle.yearBuilt, description |-> castle.description,
     rulers |-> rs]

\* the call: throws at once when the client has no rulers API URL
getAllCastlesWithRulers(rulersApiUrl) ==
    /\ process = "castle-client"
    /\ client.pc = "idle"
    /\ client' = IF rulersApiUrl = None
                  THEN [client EXCEPT !.pc = "thrown",
                                      !.error = Some(RulersApiNotConfigured)]
                  ELSE [client EXCEPT !.pc = "getAllCastles"]
    /\ UNCHANGED <<process, castleVars, rulerVars, last>>

\* await this.getAllCastles(): the service's list, or the error it throws
\* when the request fails
awaitGetAllCastles(ok) ==
    /\ process = "castle-client"
    /\ client.pc = "getAllCastles"
    /\ client' = IF ok
                  THEN [client EXCEPT !.pc = "loop", !.castles = getAllCastles(castles)]
                  ELSE [client EXCEPT !.pc = "thrown", !.error = Some(FailedToGetCastles)]
    /\ UNCHANGED <<process, castleVars, rulerVars, last>>

\* mutant: a castle whose ruler query failed is left out
awaitGetRulersByCastleSkipsFailed(ok) ==
    /\ process = "castle-client"
    /\ client.pc = "loop"
    /\ client.index < Len(client.castles)
    /\ LET castle == client.castles[client.index + 1]
       IN client' = IF ok
                    THEN [client EXCEPT !.index = @ + 1,
                                        !.castlesWithRulers =
                            Append(@, withRulers(castle,
                                View(getRulersByCastle(rulers, heap, castle.id), heap)))]
                    ELSE [client EXCEPT !.index = @ + 1,
                                        !.failed = @ \cup {client.index + 1}]
    /\ UNCHANGED <<process, castleVars, rulerVars, last>>

\* one turn of the for loop over castles: await
\* rulersClient.getRulersByCastle(castle.id); the catch block pushes the
\* castle with no rulers
awaitGetRulersByCastle(ok) ==
    /\ process = "castle-client"
    /\ client.pc = "loop"
    /\ client.index < Len(client.castles)
    /\ LET castle == client.castles[client.index + 1]
       IN client' = IF ok
                    THEN [client EXCEPT !.index = @ + 1,
                                        !.castlesWithRulers =
                            Append(@, withRulers(castle,
                                View(getRulersByCastle(rulers, heap, castle.id), heap)))]
                    ELSE [client EXCEPT !.index = @ + 1,
                                        !.castlesWithRulers =
                                            Append(@, withRulers(castle, <<>>)),
                                        !.failed = @ \cup {client.index + 1}]
    /\ UNCHANGED <<process, castleVars, rulerVars, last>>

\* return castlesWithRulers, after the last castle
returnCastlesWithRulers ==
    /\ process = "castle-client"
    /\ client.pc = "loop"
    /\ client.index = Len(client.castles)
    /\ client' = [client EXCEPT !.pc = "returned"]
    /\ UNCHANGED <<process, castleVars, rulerVars, last>>

\* the ids the client asks for: the castles the service may hold, and one more
ClientCastleIds ==
    {ClientCastle(i).id : i \in 1..NumClientCastles} \cup {"non-existent-id"}

FailedToGetCastle == "Failed to get castle: Castle not found"

FailedToGetRulers == "Failed to get rulers for castle"

\* CastleApiClient.getCastleWithRulers: this.getCastleById throws on the 404
\* of an absent castle; rulersClient.getRulersByCastle throws when the query
\* fails (rulersOk is false), and nothing catches it
getCastleWithRulers(castleId, rulersApiUrl, rulersOk) ==
    /\ process = "castle-client"
    /\ LET castle == getCastleById(castles, castleId)
           call == [op |-> "getCastleWithRulers", castleId |-> castleId,
                    rulersApiUrl |-> rulersApiUrl, rulersOk |-> rulersOk]
       IN last' =
            IF rulersApiUrl = None
            THEN call @@ [thrown |-> Some(RulersApiNotConfigured), ret |-> None]
            ELSE IF castle = None
            THEN call @@ [thrown |-> Some(FailedToGetCastle), ret |-> None]
            ELSE IF ~rulersOk
            THEN call @@ [thrown |-> Some(FailedToGetRulers), ret |-> None]
            ELSE call @@ [thrown |-> None,
                          ret |-> Some(withRulers(castle[1],
                                    View(getRulersByCastle(rulers, heap, castleId), heap)))]
    /\ UNCHANGED <<process, client, castleVars, rulerVars>>

ClientNext ==
    \/ \E rulersApiUrl \in RulersApiUrls : getAllCastlesWithRulers(rulersApiUrl)
    \/ \E ok \in BOOLEAN : awaitGetAllCastles(ok)
    \/ \E ok \in BOOLEAN : awaitGetRulersByCastle(ok)
    \/ returnCastlesWithRulers

\* mutant: a castle goes in front of the castles of its own year
insertBeforeSameYear(sorted, castle) ==
    LET k == Cardinality({i \in DOMAIN sorted : sorted[i].yearBuilt < castle.yearBuilt})
    IN SubSeq(sorted, 1, k) \o <<castle>> \o SubSeq(sorted, k + 1, Len(sorted))

\* one insertion of the stable sort by (a, b) => a.yearBuilt - b.yearBuilt: the
\* castle goes behind every castle that does not compare greater
insertByYearBuilt(sorted, castle) ==
    LET k == Cardinality({i \in DOMAIN sorted : sorted[i].yearBuilt - castle.yearBuilt <= 0})
    IN SubSeq(sorted, 1, k) \o <<castle>> \o SubSeq(sorted, k + 1, Len(sorted))

\* allCastles.sort((a, b) => a.yearBuilt - b.yearBuilt); Array.prototype.sort
\* is stable
RECURSIVE sortByYearBuilt(_)
sortByYearBuilt(list) ==
    IF list = <<>> THEN <<>>
    ELSE insertByYearBuilt(sortByYearBuilt(SubSeq(list, 1, Len(list) - 1)),
                           list[Len(list)])

\* Array.prototype.slice(0, end): a negative end counts from the back
sliceFromStart(arr, end) ==
    LET stop == IF end < 0 THEN (IF Len(arr) + end < 0 THEN 0 ELSE Len(arr) + end)
                ELSE IF end > Len(arr) THEN Len(arr) ELSE end
    IN SubSeq(arr, 1, stop)

\* the limit argument; 5 is the default
Limits == {-1, 0, 1, 2, 5}

\* CastleApiClient.getOldestCastles: sorts and cuts the list that
\* this.getAllCastles() parsed from the response; castlesOk is false when
\* that request fails
getOldestCastles(limit, castlesOk) ==
    /\ process = "castle-client"
    /\ last' = IF castlesOk
                THEN [op |-> "getOldestCastles", limit |-> limit, thrown |-> None,
                      ret |-> sliceFromStart(sortByYearBuilt(getAllCastles(castles)), limit)]
                ELSE [op |-> "getOldestCastles", limit |-> limit,
                      thrown |-> Some(FailedToGetCastles), ret |-> <<>>]
    /\ UNCHANGED <<process, client, castleVars, rulerVars>>

\* the client's single-request queries
filterByRegionEquals(allCastles, region) ==
    SelectSeq(allCastles, LAMBDA castle :
        toLowerCase(Chars(castle.region)) = toLowerCase(Chars(region)))

\* allCastles.filter(castle => castle.region.toLowerCase().includes(region.toLowerCase()))
filterByRegion(allCastles, region) ==
    SelectSeq(allCastles, LAMBDA castle :
        includesString(toLowerCase(Chars(castle.region)), toLowerCase(Chars(region))))

QueryRegions == {"loire", "ILE", "Val", "Normandy", ""}

\* CastleApiClient.getCastlesByRegion: getAllCastles (which throws when the
\* service does not answer 2xx), then the filter
getCastlesByRegion(region, castlesOk) ==
    /\ process = "castle-client"
    /\ last' = IF castlesOk
               THEN [op |-> "getCastlesByRegion", region |-> region, thrown |-> None,
                     ret |-> filterByRegion(getAllCastles(castles), region)]
               ELSE [op |-> "getCastlesByRegion", region |-> region,
                     thrown |-> Some(FailedToGetCastles), ret |-> <<>>]
    /\ UNCHANGED <<process, client, castleVars, rulerVars>>

\* how a fetch ends: a 2xx response, another response, or a rejection
FetchOutcomes == {"ok", "not-ok", "fails"}

\* CastleApiClient.getAllCastles is called: with a service binding it goes
\* to this.serviceBinding.fetch first, without one to fetch(url)
clientGetAllCastles(serviceBinding) ==
    /\ process = "castle-client"
    /\ (last.op = "CastleApiClient.getAllCastles" => last.pc \in {"returned", "rejected"})
    /\ last' = [op |-> "CastleApiClient.getAllCastles", serviceBinding |-> serviceBinding,
                pc |-> IF serviceBinding THEN "binding" ELSE "http",
                bindingOutcome |-> "none", httpOutcome |-> "none",
                httpCalls |-> 0, thrown |-> None, ret |-> None]
    /\ UNCHANGED <<process, client, castleVars, rulerVars>>

\* mutant: a binding that answers not-ok ends the call
awaitServiceBindingFetchNoFallback(outcome) ==
    /\ process = "castle-client"
    /\ last.op = "CastleApiClient.getAllCastles"
    /\ last.pc = "binding"
    /\ last' = IF outcome = "ok"
               THEN [last EXCEPT !.pc = "returned", !.bindingOutcome = outcome,
                                 !.ret = Some(getAllCastles(castles))]
               ELSE [last EXCEPT !.pc = "rejected", !.bindingOutcome = outcome,
                                 !.thrown = Some(FailedToGetCastles)]
    /\ UNCHANGED <<process, client, castleVars, rulerVars>>

\* await this.serviceBinding.fetch(request): response.ok returns the data,
\* another response falls through to the HTTP call, a rejection lands in the
\* outer catch
awaitServiceBindingFetch(outcome) ==
    /\ process = "castle-client"
    /\ last.op = "CastleApiClient.getAllCastles"
    /\ last.pc = "binding"
    /\ last' = IF outcome = "ok"
               THEN [last EXCEPT !.pc = "returned", !.bindingOutcome = outcome,
                                 !.ret = Some(getAllCastles(castles))]
               ELSE IF outcome = "not-ok"
               THEN [last EXCEPT !.pc = "http", !.bindingOutcome = outcome]
               ELSE [last EXCEPT !.pc = "rejected", !.bindingOutcome = outcome,
                                 !.thrown = Some(FailedToGetCastles)]
    /\ UNCHANGED <<process, client, castleVars, rulerVars>>

\* await fetch(url): !response.ok throws 'Failed to get castles: ...', which
\* the outer catch rethrows like a rejected fetch; response.ok returns the data
awaitFetch(outcome) ==
    /\ process = "castle-client"
    /\ last.op = "CastleApiClient.getAllCastles"
    /\ last.pc = "http"
    /\ last' = IF outcome = "ok"
               THEN [last EXCEPT !.pc = "returned", !.httpOutcome = outcome,
                                 !.httpCalls = @ + 1,
                                 !.ret = Some(getAllCastles(castles))]
               ELSE [last EXCEPT !.pc = "rejected", !.httpOutcome = outcome,
                                 !.httpCalls = @ + 1,
                                 !.thrown = Some(FailedToGetCastles)]
    /\ UNCHANGED <<process, client, castleVars, rulerVars>>

ClientFetchNext ==
    \/ \E serviceBinding \in BOOLEAN : clientGetAllCastles(serviceBinding)
    \/ \E outcome \in FetchOutcomes : awaitServiceBindingFetch(outcome)
    \/ \E outcome \in FetchOutcomes : awaitFetch(outcome)

\* the GraphQL servers the consumer is pointed at: the provider, and the
\* standalone mock of the consumer tests
RulersServers == {"castle-graphql", "graphql-mock-server"}

ClientRulerIds == {rulerData[1].id, FixtureRuler(1).id, "non-existent-ruler"}

\* `Failed to get ruler ${id}: ...`, followed by the transport's error text
FailedToGetRuler(id) == "Failed to get ruler " \o id

\* RulersGraphQLClient.getRuler: this.client.request rejects when the response
\* carries errors, and the catch rethrows. The provider's Query.getRuler throws
\* for an id no ruler has; the mock's returns rulers.find(...) || null
getRuler(id, server) ==
    /\ process = "castle-client"
    /\ LET ruler == getRulerById(rulers, id) IN
        last' = IF server = "castle-graphql" /\ ruler = None
                THEN [op |-> "getRuler", id |-> id, server |-> server,
                      thrown |-> Some(FailedToGetRuler(id)), ret |-> None]
                ELSE [op |-> "getRuler", id |-> id, server |-> server,
                      thrown |-> None, ret |-> View(ruler, heap)]
    /\ UNCHANGED <<process, client, castleVars, rulerVars>>

ClientQueriesNext ==
    \/ \E castleId \in ClientCastleIds, rulersApiUrl \in RulersApiUrls, rulersOk \in BOOLEAN :
            getCastleWithRulers(castleId, rulersApiUrl, rulersOk)
    \/ \E limit \in Limits, castlesOk \in BOOLEAN : getOldestCastles(limit, castlesOk)
    \/ \E region \in QueryRegions, castlesOk \in BOOLEAN : getCastlesByRegion(region, castlesOk)
    \/ \E id \in ClientRulerIds, server \in RulersServers : getRuler(id, server)

\* the client next to a castle-service and a castle-graphql that hold data
ClientInit ==
    /\ process = "castle-client"
    /\ client = ClientIdle
    /\ castles \in ClientCastleLists
    /\ sourceCastles = castles
    /\ loadedCastles = None
    /\ \E data \in ClientRulerLists :
            /\ rulers = Place(data)
            /\ sourceRulers = Place(data)
            /\ heap = PlacedArrays(data)
    /\ loadedRulers = None
    /\ last = [op |-> "init"]

---------------------------------------------------------------------------

\* mutant: the ruler store's source collection starts empty
InitEmptySource ==
    /\ process \in {"castle-service", "castle-graphql"}
    /\ castles = <<>>
    /\ sourceCastles = <<>>
    /\ loadedCastles = None
    /\ rulers = Place(rulerData)
    /\ sourceRulers = <<>>
    /\ heap = PlacedArrays(rulerData)
    /\ loadedRulers = None
    /\ last = [op |-> "init"]
    /\ client = ClientIdle

\* The module-level initialisers: castles and sourceCastles are empty lists,
\* rulers and sourceRulers are two lists of the records of rulers.json
Init ==
    /\ process \in {"castle-service", "castle-graphql"}
    /\ castles = <<>>
    /\ sourceCastles = <<>>
    /\ loadedCastles = None
    /\ rulers = Place(rulerData)
    /\ sourceRulers = Place(rulerData)
    /\ heap = PlacedArrays(rulerData)
    /\ loadedRulers = None
    /\ last = [op |-> "init"]
    /\ client = ClientIdle

Next == CastleNext \/ RulerNext

Spec == Init /\ [][Next]_vars

QueryInit == Init /\ process = "castle-graphql"

SpecQuery == QueryInit /\ [][QueryNext]_vars

SpecCallers == QueryInit /\ [][CallersNext]_vars

SpecClientFetch == ClientInit /\ [][ClientFetchNext]_vars

SpecEquivalence == QueryInit /\ [][EquivalenceNext]_vars

SpecFixtureLoad == QueryInit /\ [][FixtureLoadNext]_vars

SpecVerification == Init /\ [][VerificationNext]_vars

SpecResolvers == QueryInit /\ [][ResolversNext]_vars

RestInit == Init /\ process = "castle-service"

SpecRest == RestInit /\ [][RestNext]_vars

\* both services started, castle-service holding the castles rulers refer to
SystemInit ==
    /\ process \in {"castle-service", "castle-graphql"}
    /\ client = ClientIdle
    /\ castles \in ClientCastleLists
    /\ sourceCastles = castles
    /\ loadedCastles = None
    /\ rulers = Place(rulerData)
    /\ sourceRulers = Place(rulerData)
    /\ heap = PlacedArrays(rulerData)
    /\ loadedRulers = None
    /\ last = [op |-> "init"]

SpecSystem == SystemInit /\ [][SystemNext]_vars

SpecCreateDelete == Init /\ [][CreateDeleteNext]_vars

SpecAssociations == QueryInit /\ [][AssociationsNext]_vars

SpecValidation == Init /\ [][ValidationNext]_vars

SpecClient == ClientInit /\ [][ClientNext]_vars

SpecClientQueries == ClientInit /\ [][ClientQueriesNext]_vars


---------------------------------------------------------------------------
(* The claims *)

\* what getAllRulers() shows a caller
RulerList == View(getAllRulers(rulers), heap)

\* what the source (fixture) collection of the ruler store holds
SourceRulerList == View(sourceRulers, heap)

\* C1: RulerStore reset discards every interim mutation: after setRulers(S)
\* and any createRuler, updateRuler, deleteRuler, addCastleToRuler and
\* removeCastleFromRuler calls, resetRulers() makes getAllRulers() equal to S,
\* record for record, castleIds included.
C1_ResetDiscardsEveryMutation ==
    (last.op = "resetRulers" /\ loadedRulers # None) => RulerList = loadedRulers[1]

\* C2: in both stores, after set(S) and any create and delete calls, reset()
\* makes list() equal to S, the same records in the same order.
C2_ResetRestoresAfterCreateDelete ==
    /\ (last.op = "resetCastles" /\ loadedCastles # None)
            => getAllCastles(castles) = loadedCastles[1]
    /\ (last.op = "resetRulers" /\ loadedRulers # None)
            => RulerList = loadedRulers[1]

\* a reset of the castle store that undid creates and deletes made after a load
C2_Witness ==
    /\ last.op = "resetCastles"
    /\ loadedCastles # None
    /\ Len(loadedCastles[1]) = 2
    /\ Len(last.before) = 1
    /\ last.before[1].id = generateCastleId(1)
    /\ castles = loadedCastles[1]

\* C3: set(R) replaces the current and the source collection with R whatever
\* the state before; a later reset() returns list() to R; reset() leaves the
\* source collection as it is.
C3_Step ==
    /\ last'.op = "setCastles"
            => castles' = last'.arg /\ sourceCastles' = last'.arg
    /\ last'.op = "setRulers"
            => RulerList' = last'.arg /\ SourceRulerList' = last'.arg
    /\ last'.op = "resetCastles"
            => /\ sourceCastles' = sourceCastles
               /\ loadedCastles # None => castles' = loadedCastles[1]
    /\ last'.op = "resetRulers"
            => /\ SourceRulerList' = SourceRulerList
               /\ loadedRulers # None => RulerList' = loadedRulers[1]

C3_SetReplacesBothResetOnlyCurrent == [][C3_Step]_vars

\* C4: create, update and delete leave the source collection, and the
\* records it contains, unchanged, in both stores, whether they succeed or not.
C4_Step ==
    /\ last'.op \in {"createCastle", "deleteCastle"}
            => sourceCastles' = sourceCastles
    /\ last'.op \in {"createRuler", "updateRuler", "deleteRuler"}
            => sourceRulers' = sourceRulers /\ SourceRulerList' = SourceRulerList

C4_MutationsLeaveSource == [][C4_Step]_vars

\* an update went through and the current collection now differs from the source
C4_Witness ==
    /\ last.op = "updateRuler"
    /\ last.ret # None
    /\ RulerList # SourceRulerList
    /\ Len(rulers) = Len(sourceRulers)

\* both stores hold their built-in dataset, in both collections
BuiltIn ==
    /\ castles = <<>>
    /\ sourceCastles = <<>>
    /\ RulerList = rulerData
    /\ SourceRulerList = rulerData

ReadOps ==
    {"getAllCastles", "getCastleById", "getAllRulers", "getRulerById",
     "getRulersByCastle", "getRulersByPeriod"}

\* C5: before any set call both stores hold their built-in dataset in the
\* current and in the source collection: list() returns it, and reset()
\* returns to it.
C5_Step ==
    /\ (BuiltIn /\ last'.op = "getAllCastles") => last'.ret = <<>>
    /\ (BuiltIn /\ last'.op = "getAllRulers") => last'.ret = rulerData
    /\ (BuiltIn /\ last'.op \in ReadOps \cup {"resetCastles", "resetRulers"}) => BuiltIn'

UniqueIds(coll) == \A i, j \in DOMAIN coll : i # j => coll[i].id # coll[j].id

\* C6: identifier uniqueness is an invariant of the live collection: after any
\* set, reset, create and delete calls no two records of the current castle
\* (or ruler) collection have the same id.
C6_UniqueIds == UniqueIds(castles) /\ UniqueIds(rulers)

\* C7: getById(create(x).id) returns a record equal to the one create
\* returned, and that record has the name, region and yearBuilt of x.
C7_CreateGetRoundTrip ==
    last.op = "createCastle"
        => /\ getCastleById(castles, last.ret.id) = Some(last.ret)
           /\ last.ret.name = last.arg.name
           /\ last.ret.region = last.arg.region
           /\ last.ret.yearBuilt = last.arg.yearBuilt

\* C8: for an id present in the current collection delete(id) returns true
\* and a getById(id) right after it returns absent, in both stores.
C8_Step ==
    /\ (last'.op = "deleteCastle" /\ FindIndex(castles, last'.id) # -1)
            => last'.ret /\ getCastleById(castles', last'.id) = None
    /\ (last'.op = "deleteRuler" /\ FindIndex(rulers, last'.id) # -1)
            => last'.ret /\ getRulerById(rulers', last'.id) = None

C8_DeleteThenGetAbsent == [][C8_Step]_vars

HasReign(list, reignStart, reignEnd) ==
    \E i \in DOMAIN list :
        list[i].reignStart = reignStart /\ list[i].reignEnd = Some(reignEnd)

\* getByPeriod(1600, 1700) was called on the built-in dataset
C9_Case ==
    /\ last.op = "getRulersByPeriod"
    /\ last.startYear = 1600
    /\ last.endYear = 1700
    /\ RulerList = rulerData

\* C9 as stated: getByPeriod(1600, 1700) on the built-in dataset returns the
\* rulers reigning 1643-1715 and 1610-1643 and not the ruler reigning 1589-1610.
C9_PeriodExcludesHenryIV ==
    C9_Case => /\ HasReign(last.ret, 1643, 1715)
               /\ HasReign(last.ret, 1610, 1643)
               /\ ~HasReign(last.ret, 1589, 1610)

\* C9 as amended: getByPeriod(1600, 1700) on the built-in dataset returns all
\* three rulers in store order; the reign 1589-1610 overlaps 1600-1700 too.
C9_PeriodReturnsAllThree ==
    C9_Case => /\ last.ret = rulerData
               /\ HasReign(last.ret, 1589, 1610)

C9_Witness == C9_Case /\ Len(last.ret) = 3

\* the end of a reign as C10 states it: reignEnd whenever it is present
EffectiveEnd(ruler, currentYear) ==
    IF ruler.reignEnd = None THEN currentYear ELSE ruler.reignEnd[1]

\* C10: getByPeriod(startYear, endYear) returns exactly the rulers, in store
\* order, with reignStart <= endYear and effectiveEnd >= startYear, where
\* effectiveEnd is reignEnd whenever present (0 included) and the current year
\* only when reignEnd is absent.
C10_PeriodUsesReignEndWhenPresent ==
    last.op = "getRulersByPeriod"
        => last.ret = SelectSeq(RulerList,
                LAMBDA r : /\ r.reignStart <= last.endYear
                           /\ EffectiveEnd(r, last.currentYear) >= last.startYear)

\* how many times x occurs in an array
Count(arr, x) == Cardinality({i \in DOMAIN arr : arr[i] = x})

\* two calls in a row of the same association operation on the same existing
\* ruler with the same castle id
SameCallTwice(op) ==
    /\ last.op = op
    /\ last'.op = op
    /\ last'.id = last.id
    /\ last'.castleId = last.castleId
    /\ last.ret # None

\* C11: addCastleToRuler(r, c) twice in a row on an existing ruler leaves
\* castleIds containing c exactly once and equal to the list after the first
\* call.  The state is the one after the first call; the second call finds
\* the ruler again and pushes c unless the array includes it.
C11_AddTwiceContainsOnce ==
    (last.op = "addCastleToRuler" /\ last.ret # None)
        => LET ruler == getRulerById(rulers, last.id)
               afterFirst == last.ret[1].castleIds
               afterSecond == pushed(heap[ruler[1].castleIds], last.castleId)
           IN /\ ruler # None
              /\ heap[ruler[1].castleIds] = afterFirst
              /\ afterSecond = afterFirst
              /\ Count(afterSecond, last.castleId) = 1

NoDuplicates(arr) == \A i, j \in DOMAIN arr : i # j => arr[i] # arr[j]

\* C12: in every reachable state no ruler of the current collection has the
\* same castle id twice in castleIds, whatever castleIds lists createRuler was
\* given and whatever add, remove and update calls were made.
C12_CastleIdsDuplicateFree ==
    \A i \in DOMAIN RulerList : NoDuplicates(RulerList[i].castleIds)

\* C13: after removeCastleFromRuler(r, c) on an existing ruler castleIds does
\* not contain c; when c was not associated the call changes nothing and
\* returns the ruler; a second identical call leaves the state unchanged.
C13_Step ==
    /\ (last'.op = "removeCastleFromRuler" /\ last'.ret # None)
            => ~Includes(last'.ret[1].castleIds, last'.castleId)
    /\ (last'.op = "removeCastleFromRuler" /\ getRulerById(rulers, last'.id) # None
            /\ ~Includes(Deref(getRulerById(rulers, last'.id)[1], heap).castleIds,
                         last'.castleId))
            => /\ last'.ret = Some(Deref(getRulerById(rulers, last'.id)[1], heap))
               /\ RulerList' = RulerList
               /\ SourceRulerList' = SourceRulerList
    /\ SameCallTwice("removeCastleFromRuler")
            => RulerList' = RulerList /\ SourceRulerList' = SourceRulerList

C13_RemoveIsIdempotent == [][C13_Step]_vars

\* C14: updateRuler(id, partial) on an existing ruler leaves the ruler's id,
\* its position, its castleIds and every field partial does not carry
\* unchanged, and leaves every other ruler unchanged.
C14_Step ==
    (last'.op = "updateRuler" /\ last'.ret # None)
        => LET index == FindIndex(rulers, last'.id)
               partial == last'.arg
           IN /\ index # -1
              /\ Len(rulers') = Len(rulers)
              /\ \A j \in DOMAIN rulers : j # index => rulers'[j] = rulers[j]
              /\ rulers'[index].id = rulers[index].id
              /\ rulers'[index].castleIds = rulers[index].castleIds
              /\ RulerList'[index].castleIds = RulerList[index].castleIds
              /\ partial.name = None => rulers'[index].name = rulers[index].name
              /\ partial.title = None => rulers'[index].title = rulers[index].title
              /\ partial.reignStart = None
                    => rulers'[index].reignStart = rulers[index].reignStart
              /\ partial.reignEnd = None => rulers'[index].reignEnd = rulers[index].reignEnd
              /\ partial.house = None => rulers'[index].house = rulers[index].house
              /\ partial.description = None
                    => rulers'[index].description = rulers[index].description
              /\ partial.achievements = None
                    => rulers'[index].achievements = rulers[index].achievements
              /\ last'.ret = Some(RulerList'[index])

C14_UpdateChangesOnlyGivenFields == [][C14_Step]_vars

\* the first of two rulers, one that has a castle, was given a new description
C14_Witness ==
    /\ last.op = "updateRuler"
    /\ last.ret # None
    /\ Len(rulers) >= 2
    /\ rulers[1].id = last.id
    /\ last.ret[1].castleIds # <<>>
    /\ last.ret[1].description = last.arg.description
    /\ last.ret[1].name # ""

\* a call left both castle collections as they were
CastlesUntouched == castles' = castles /\ sourceCastles' = sourceCastles

\* a call left both ruler collections, and the records in them, as they were
RulersUntouched ==
    /\ rulers' = rulers
    /\ sourceRulers' = sourceRulers
    /\ RulerList' = RulerList
    /\ SourceRulerList' = SourceRulerList

\* C15: getById, update, delete, addCastleToRuler and removeCastleFromRuler
\* called with an id that is not in the current collection return the absent
\* value, or false, and leave the current and the source collection unchanged.
C15_Step ==
    /\ (last'.op = "getCastleById" /\ FindIndex(castles, last'.id) = -1)
            => last'.ret = None /\ CastlesUntouched
    /\ (last'.op = "deleteCastle" /\ FindIndex(castles, last'.id) = -1)
            => last'.ret = FALSE /\ CastlesUntouched
    /\ (last'.op = "getRulerById" /\ FindIndex(rulers, last'.id) = -1)
            => last'.ret = None /\ RulersUntouched
    /\ (last'.op = "deleteRuler" /\ FindIndex(rulers, last'.id) = -1)
            => last'.ret = FALSE /\ RulersUntouched
    /\ (last'.op \in {"updateRuler", "addCastleToRuler", "removeCastleFromRuler"}
            /\ FindIndex(rulers, last'.id) = -1)
            => last'.ret = None /\ RulersUntouched

C15_MissingRecordIsNoError == [][C15_Step]_vars

\* a delete of an unknown id was answered false by a store that holds records
\* and has diverged from its source collection
C15_Witness ==
    /\ last.op = "deleteRuler"
    /\ last.ret = FALSE
    /\ Len(rulers) = 2
    /\ RulerList # SourceRulerList

ValidationErrors == {Some(MissingRequiredFields), Some(ReignEndBeforeStart)}

\* C16: whenever POST /castles, or the createRuler or updateRuler mutation,
\* rejects a request with a validation error, the store's current collection
\* is exactly what it was before the request.
C16_Step ==
    /\ (last'.op = "POST /castles" /\ last'.status = 400) => CastlesUntouched
    /\ (last'.op \in {"Mutation.createRuler", "Mutation.updateRuler"}
            /\ last'.error \in ValidationErrors)
            => RulersUntouched

C16_RejectionWritesNothing == [][C16_Step]_vars

\* an update of an existing ruler was rejected for its reign dates
C16_Witness ==
    /\ last.op = "Mutation.updateRuler"
    /\ last.error = Some(ReignEndBeforeStart)
    /\ FindIndex(rulers, last.id) # -1

\* what C17 requires of a body: name and region non-empty strings, yearBuilt a
\* number from 1000 to 2100
C17_Acceptable(body) ==
    /\ body.name.t = "string" /\ body.name.s # ""
    /\ body.region.t = "string" /\ body.region.s # ""
    /\ body.yearBuilt.t = "number"
    /\ 1000 <= body.yearBuilt.n /\ body.yearBuilt.n <= 2100

\* C17: POST /castles accepts a body only if name and region are non-empty
\* strings and yearBuilt is a number from 1000 to 2100, both bounds accepted;
\* yearBuilt 500 or 999 is rejected with validation_error before the store is
\* called; every castle created through POST /castles has yearBuilt in 1000..2100.
C17_Step ==
    /\ last'.op = "POST /castles"
            => /\ last'.status = 201 <=> C17_Acceptable(last'.body)
               /\ last'.status = 400 <=> ~C17_Acceptable(last'.body)
               /\ last'.status = 400 => last'.error = "validation_error" /\ CastlesUntouched
               /\ last'.body.yearBuilt \in {JsNumber(500), JsNumber(999)} => last'.status = 400
               /\ last'.status = 201
                    => /\ castles' = Append(castles, last'.ret)
                       /\ last'.ret.yearBuilt = last'.body.yearBuilt.n
    /\ \A i \in DOMAIN castles' : castles'[i].yearBuilt \in 1000..2100

C17_CastleValidation == [][C17_Step]_vars

\* yearBuilt 999 was rejected by a store that holds castles built in 1000 and 2100
C17_Witness ==
    /\ last.op = "POST /castles"
    /\ last.status = 400
    /\ last.body.yearBuilt = JsNumber(999)
    /\ \E i \in DOMAIN castles : castles[i].yearBuilt = 1000
    /\ \E i \in DOMAIN castles : castles[i].yearBuilt = 2100

\* the inputs C18 says the createRuler mutation rejects
C18_Rejectable(input) ==
    \/ input.name = None \/ input.name = Some("")
    \/ input.title = None \/ input.title = Some("")
    \/ input.house = None \/ input.house = Some("")
    \/ input.reignStart = None
    \/ /\ input.reignEnd # None
       /\ input.reignStart # None
       /\ input.reignEnd[1] < input.reignStart[1]

\* C18: the createRuler mutation rejects an input exactly when name, title or
\* house is missing or empty, reignStart is not a number, or reignEnd is
\* present and less than reignStart (reignEnd = 0 with reignStart > 0 is
\* rejected, reignStart = 0 is accepted); every other input goes to the store,
\* and every ruler so created that has a reignEnd has reignEnd >= reignStart.
C18_Step ==
    last'.op = "Mutation.createRuler"
        => /\ last'.error # None <=> C18_Rejectable(last'.input)
           /\ last'.error = None
                => /\ RulerList' = Append(RulerList, last'.ret)
                   /\ last'.ret.reignEnd # None
                        => last'.ret.reignEnd[1] >= last'.ret.reignStart

C18_CreateRulerValidation == [][C18_Step]_vars

\* C19: the updateRuler mutation checks reignEnd >= reignStart only when both
\* are in the call: a call carrying both with reignEnd < reignStart is
\* rejected and changes nothing; a call carrying only one of them is accepted
\* for an existing ruler, whatever the stored result.
C19_Step ==
    last'.op = "Mutation.updateRuler"
        => LET input == last'.input IN
           /\ (/\ input.reignStart # None
               /\ input.reignEnd # None
               /\ input.reignEnd[1] < input.reignStart[1])
                => last'.error # None /\ RulersUntouched
           /\ (/\ (input.reignStart = None) # (input.reignEnd = None)
               /\ FindIndex(rulers, last'.id) # -1)
                => last'.error = None

C19_UpdateChecksOnlyWhenBothGiven == [][C19_Step]_vars

\* what C20 says a returned list is: one entry per castle of list(), in
\* list() order, with the castle's fields and the getByCastle result, or no
\* rulers where the sub-query failed
C20_Result ==
    client.pc = "returned"
        => /\ Len(client.castlesWithRulers) = Len(getAllCastles(castles))
           /\ \A i \in DOMAIN castles :
                LET entry == client.castlesWithRulers[i] IN
                /\ entry.id = castles[i].id
                /\ entry.name = castles[i].name
                /\ entry.region = castles[i].region
                /\ entry.yearBuilt = castles[i].yearBuilt
                /\ entry.rulers =
                        IF i \in client.failed THEN <<>>
                        ELSE View(getRulersByCastle(rulers, heap, castles[i].id), heap)

\* C20 as stated: allCastlesWithRulers never throws and never omits a castle,
\* for every state of the castle collection and every pattern of sub-query
\* failures.
C20_NeverThrowsNeverOmits == client.pc # "thrown" /\ C20_Result

\* C20 as amended: allCastlesWithRulers throws only when the client has no
\* rulers API URL or the request for the castle list fails, and never once the
\* list is in hand; what it returns has one entry per castle of list(), in
\* list() order, with the castle's fields and the getByCastle result, or no
\* rulers where that sub-query failed.
C20_ThrowsOnlyBeforeTheLoop ==
    /\ client.pc = "thrown"
            => /\ client.error \in {Some(RulersApiNotConfigured), Some(FailedToGetCastles)}
               /\ client.index = 0
               /\ client.castlesWithRulers = <<>>
               /\ client.failed = {}
    /\ C20_Result

\* a list of three was returned although the ruler query failed for the
\* first castle, and the third castle has a ruler
C20_Witness ==
    /\ client.pc = "returned"
    /\ Len(client.castlesWithRulers) = 3
    /\ client.failed = {1}
    /\ client.castlesWithRulers[1].rulers = <<>>
    /\ client.castlesWithRulers[3].rulers # <<>>

\* C21: castleWithRulers(castleId) raises when the castle is absent; when the
\* castle exists a failure of the ruler lookup still returns the castle; on
\* success every returned ruler has castleId in its castleIds.
C21_CastleSurvivesRulerFailure ==
    (last.op = "getCastleWithRulers" /\ last.rulersApiUrl # None)
        => LET castle == getCastleById(castles, last.castleId) IN
           /\ castle = None => last.thrown # None
           /\ castle # None
                => /\ last.ret # None
                   /\ last.ret[1].id = castle[1].id
                   /\ last.ret[1].name = castle[1].name
                   /\ \A i \in DOMAIN last.ret[1].rulers :
                        Includes(last.ret[1].rulers[i].castleIds, last.castleId)

\* castle i of a list comes before castle j when it is older, or as old and
\* earlier in the list
C22_Before(list, i, j) ==
    \/ list[i].yearBuilt < list[j].yearBuilt
    \/ list[i].yearBuilt = list[j].yearBuilt /\ i < j

\* the place of castle i among the castles of a list, oldest first
C22_Rank(list, i) == Cardinality({j \in DOMAIN list : C22_Before(list, j, i)}) + 1

\* C22: oldestCastles(limit), limit >= 1, returns min(limit, number of
\* castles) castles in ascending yearBuilt order, the limit oldest ones, castles
\* of the same year in store order, and leaves the store's collection as it is.
C22_Step ==
    (last'.op = "getOldestCastles" /\ last'.thrown = None /\ last'.limit >= 1)
        => LET all == getAllCastles(castles)
               ret == last'.ret
           IN /\ Len(ret) = IF last'.limit < Len(all) THEN last'.limit ELSE Len(all)
              /\ \A i \in 1..(Len(ret) - 1) : ret[i].yearBuilt <= ret[i + 1].yearBuilt
              /\ \A i \in DOMAIN all :
                    C22_Rank(all, i) <= Len(ret) => ret[C22_Rank(all, i)] = all[i]
              /\ castles' = castles
              /\ sourceCastles' = sourceCastles

C22_OldestCastles == [][C22_Step]_vars

\* the two oldest of three castles were asked for; the first and the third
\* are of the same year, and the first of them made it into the result
C22_Witness ==
    /\ last.op = "getOldestCastles"
    /\ last.thrown = None
    /\ last.limit = 2
    /\ Len(castles) = 3
    /\ castles[1].yearBuilt = castles[3].yearBuilt
    /\ castles[2].yearBuilt < castles[1].yearBuilt
    /\ last.ret = <<castles[2], castles[1]>>


\* ret holds exactly the elements of list at the kept positions, in list order
IsSelection(ret, list, kept) ==
    /\ Len(ret) = Cardinality(kept)
    /\ \A i \in kept : ret[Cardinality({j \in kept : j <= i})] = list[i]

\* the letters a and b are the same, whatever their case
SameLetter(a, b) ==
    \/ a = b
    \/ \E k \in DOMAIN UpperCase : {a, b} = {UpperCase[k], LowerCase[k]}

\* part stands somewhere in whole when case is ignored
ContainsIgnoringCase(whole, part) ==
    \E k \in 0..(Len(whole) - Len(part)) :
        \A j \in 1..Len(part) : SameLetter(whole[k + j], part[j])

\* C26: getByCastle(castleId) returns exactly the rulers whose castleIds holds
\* castleId, in store order, and the empty list when no ruler holds it.
C26_ByCastleExact ==
    last.op = "getRulersByCastle"
        => IsSelection(last.ret, RulerList,
                       {i \in DOMAIN RulerList :
                            \E j \in DOMAIN RulerList[i].castleIds :
                                RulerList[i].castleIds[j] = last.castleId})

\* two of three rulers hold the castle and the one between them does not
C26_Witness ==
    /\ last.op = "getRulersByCastle"
    /\ Len(RulerList) = 3
    /\ RulerList[2].castleIds = <<>>
    /\ last.ret = <<RulerList[1], RulerList[3]>>

\* C27: getByHouse(house) returns exactly the rulers whose house contains the
\* argument as a substring when case is ignored, in store order.
C27_ByHouseIgnoresCase ==
    last.op = "getRulersByHouse"
        => IsSelection(last.ret, RulerList,
                       {i \in DOMAIN RulerList :
                            ContainsIgnoringCase(Chars(RulerList[i].house), Chars(last.house))})

\* 'BOURBON' finds the two Bourbon rulers around a Valois
C27_Witness ==
    /\ last.op = "getRulersByHouse"
    /\ last.house = "BOURBON"
    /\ Len(RulerList) = 3
    /\ RulerList[2].house = "Valois"
    /\ last.ret = <<RulerList[1], RulerList[3]>>

\* C28: castlesByRegion(region) returns the castles of list() whose region
\* contains the argument when case is ignored, in list() order; the castle
\* collection alone decides the result.
C28_ByRegionIgnoresCase ==
    (last.op = "getCastlesByRegion" /\ last.thrown = None)
        => IsSelection(last.ret, castles,
                       {i \in DOMAIN castles :
                            ContainsIgnoringCase(Chars(castles[i].region), Chars(last.region))})

\* 'ILE' finds the two Ile-de-France castles around one of the Loire Valley
C28_Witness ==
    /\ last.op = "getCastlesByRegion"
    /\ last.thrown = None
    /\ last.region = "ILE"
    /\ Len(castles) = 3
    /\ castles[2].region = "Loire Valley"
    /\ last.ret = <<castles[1], castles[3]>>


\* C23: reads return defensive copies: nothing a caller does to a value it
\* was returned (emptying a returned list, pushing onto the castleIds of a
\* returned record) changes what later reads return or what reset restores.
C23_Step ==
    (last'.op = "caller: getAllRulers().length = 0"
     \/ last'.op = "caller: getRulerById(id).castleIds.push(castleId)")
        => RulerList' = RulerList /\ SourceRulerList' = SourceRulerList

C23_ReadsReturnCopies == [][C23_Step]_vars


\* C24: set and reset are atomic for readers: a read that follows set(R)
\* returns the complete R, which is also the source collection; a read that
\* follows reset() returns the complete source collection; no read returns
\* anything but the complete current collection.
C24_Step ==
    /\ last'.op = "setCastles"
            => castles' = last'.arg /\ castles' = sourceCastles'
    /\ last'.op = "setRulers"
            => RulerList' = last'.arg /\ RulerList' = SourceRulerList'
    /\ last'.op = "resetCastles" => castles' = sourceCastles
    /\ last'.op = "resetRulers" => RulerList' = SourceRulerList
    /\ last'.op = "getAllCastles"
            => /\ last'.ret = castles
               /\ last.op = "setCastles" => last'.ret = last.arg /\ last'.ret = sourceCastles
               /\ last.op = "resetCastles" => last'.ret = sourceCastles
    /\ last'.op = "getAllRulers"
            => /\ last'.ret = RulerList
               /\ last.op = "setRulers" => last'.ret = last.arg /\ last'.ret = SourceRulerList
               /\ last.op = "resetRulers" => last'.ret = SourceRulerList

C24_SetResetAtomic == [][C24_Step]_vars

\* a read returned the two castles that were loaded, and they are the source
C24_Witness ==
    /\ last.op = "getAllCastles"
    /\ Len(last.ret) = 2
    /\ loadedCastles = Some(last.ret)
    /\ sourceCastles = last.ret


\* C25: no cascade between the stores: deleteCastle, setCastles and
\* resetCastles leave the rulers and their castleIds as they were;
\* getRulersByCastle returns the rulers that hold a castle id whether or not
\* the castle store holds that castle; addCastleToRuler on an existing ruler
\* adds a castle id the castle store does not hold.
C25_Step ==
    /\ last'.op \in {"deleteCastle", "setCastles", "resetCastles"}
            => RulerList' = RulerList /\ SourceRulerList' = SourceRulerList
    /\ last'.op = "getRulersByCastle"
            => IsSelection(last'.ret, RulerList,
                           {i \in DOMAIN RulerList :
                                Includes(RulerList[i].castleIds, last'.castleId)})
    /\ (last'.op = "addCastleToRuler" /\ getRulerById(rulers, last'.id) # None)
            => /\ last'.ret # None
               /\ Includes(last'.ret[1].castleIds, last'.castleId)
               /\ castles' = castles

C25_NoCascade == [][C25_Step]_vars

\* Versailles was deleted from the castle store, and getRulersByCastle still
\* returns a ruler that holds it
C25_Witness ==
    /\ last.op = "getRulersByCastle"
    /\ last.castleId = Versailles
    /\ getCastleById(castles, Versailles) = None
    /\ getCastleById(sourceCastles, Versailles) # None
    /\ last.ret # <<>>


\* C29: GET or DELETE of /castles/:id for an id the collection does not hold
\* answers 404 with error 'not_found' and message 'Castle not found' and
\* leaves the collections as they were; DELETE of an id it holds answers 204,
\* and a second DELETE of the same id right after answers 404.
C29_Step ==
    /\ (last'.op \in {"GET /castles/:id", "DELETE /castles/:id"}
        /\ getCastleById(castles, last'.id) = None)
            => /\ last'.status = 404
               /\ last'.error = "not_found"
               /\ last'.message = "Castle not found"
               /\ castles' = castles
               /\ sourceCastles' = sourceCastles
    /\ (last'.op = "DELETE /castles/:id" /\ getCastleById(castles, last'.id) # None)
            => last'.status = 204
    /\ (last.op = "DELETE /castles/:id" /\ last.status = 204
        /\ last'.op = "DELETE /castles/:id" /\ last'.id = last.id)
            => last'.status = 404

C29_RestNotFound == [][C29_Step]_vars


\* the resolvers that take a ruler id
C30_Resolvers ==
    {"Query.getRuler", "Mutation.updateRuler", "Mutation.deleteRuler",
     "Mutation.addCastleToRuler", "Mutation.removeCastleFromRuler"}

\* an updateRuler input whose two reign dates are non-zero numbers, the end
\* before the start
C30_DatesReversed(input) ==
    /\ input.reignStart # None /\ input.reignStart[1] # 0
    /\ input.reignEnd # None /\ input.reignEnd[1] # 0
    /\ input.reignEnd[1] < input.reignStart[1]

\* C30 as stated: getRuler, updateRuler, deleteRuler, addCastleToRuler and
\* removeCastleFromRuler called with a ruler id the collection does not hold
\* raise 'Ruler with ID <id> not found' and leave the rulers unchanged.
C30_OriginalStep ==
    (last'.op \in C30_Resolvers /\ getRulerById(rulers, last'.id) = None)
        => /\ last'.error = Some("Ruler with ID " \o last'.id \o " not found")
           /\ RulersUntouched

C30_NotFoundAlways == [][C30_OriginalStep]_vars

\* C30 amended: the same, except that updateRuler given non-zero reign dates
\* with reignEnd before reignStart raises 'reignEnd cannot be before
\* reignStart' instead; the rulers are unchanged in every case.
C30_AmendedStep ==
    (last'.op \in C30_Resolvers /\ getRulerById(rulers, last'.id) = None)
        => /\ last'.error =
                IF last'.op = "Mutation.updateRuler" /\ C30_DatesReversed(last'.input)
                THEN Some("reignEnd cannot be before reignStart")
                ELSE Some("Ruler with ID " \o last'.id \o " not found")
           /\ RulersUntouched

C30_NotFoundUnlessDatesReversed == [][C30_AmendedStep]_vars

\* updateRuler with acceptable dates on an id the collection does not hold
\* raised the not-found error
C30_Witness ==
    /\ last.op = "Mutation.updateRuler"
    /\ last.id = "non-existent-id"
    /\ getRulerById(rulers, last.id) = None
    /\ ~C30_DatesReversed(last.input)
    /\ last.error = Some("Ruler with ID non-existent-id not found")


\* C31: for the consumer, getRuler(id) with an id no ruler has yields null and
\* no error, and getRuler(id) for an id a ruler has yields the ruler with that id.
C31_GetRulerNullWhenAbsent ==
    last.op = "getRuler"
        => /\ last.thrown = None
           /\ getRulerById(rulers, last.id) = None => last.ret = None
           /\ getRulerById(rulers, last.id) # None
                => last.ret # None /\ last.ret[1].id = last.id


\* C32: under the verification protocol (set(F) once, then reset() and one
\* operation per scenario) every scenario's operation starts from a current
\* collection equal to F, whatever earlier scenarios did.
C32_ScenarioStartsFromFixture ==
    /\ (last.op = "resetCastles" /\ loadedCastles # None) => castles = loadedCastles[1]
    /\ (last.op = "resetRulers" /\ loadedRulers # None) => RulerList = loadedRulers[1]


\* C33: createCastle appends exactly one record at the end of the current
\* collection and leaves the records before it as they were; the new record's
\* description is 'A beautiful castle' exactly when the input omits
\* description, and the supplied description otherwise.
C33_Step ==
    last'.op = "createCastle"
        => /\ castles' = Append(castles, last'.ret)
           /\ last'.arg.description = None => last'.ret.description = "A beautiful castle"
           /\ last'.arg.description # None
                => last'.ret.description = last'.arg.description[1]

C33_CreateAppendsWithDefault == [][C33_Step]_vars


\* after is before with the first record whose id is id taken out
FirstRemoved(before, after, id) ==
    \E i \in DOMAIN before :
        /\ before[i].id = id
        /\ \A j \in 1..(i - 1) : before[j].id # id
        /\ Len(after) = Len(before) - 1
        /\ \A j \in 1..(i - 1) : after[j] = before[j]
        /\ \A j \in i..(Len(before) - 1) : after[j] = before[j + 1]

\* C34: delete(id) removes only the first record with that id: when it
\* returns true the collection is the previous one without that one record,
\* the rest in their order; when it returns false the collection is unchanged.
C34_Step ==
    /\ last'.op = "deleteCastle"
            => IF last'.ret THEN FirstRemoved(castles, castles', last'.id)
               ELSE castles' = castles
    /\ last'.op = "deleteRuler"
            => IF last'.ret THEN FirstRemoved(RulerList, RulerList', last'.id)
               ELSE RulerList' = RulerList

C34_DeleteRemovesFirstOnly == [][C34_Step]_vars

\* a castle was deleted and another record with its id is still there
C34_Witness ==
    /\ last.op = "deleteCastle"
    /\ last.ret
    /\ getCastleById(castles, last.id) # None


\* a fixture entity with a non-empty id, name, title and house and a numeric
\* reignStart
C35_Complete(data) ==
    /\ \A v \in {data.id, data.name, data.title, data.house} : v.t = "string" /\ v.s # ""
    /\ data.reignStart.t = "number"

\* the ruler r is the entity data with its missing lists and description filled in
C35_Loaded(r, data) ==
    /\ r.id = data.id.s /\ r.name = data.name.s
    /\ r.title = data.title.s /\ r.house = data.house.s
    /\ r.reignStart = data.reignStart.n
    /\ r.castleIds = (IF data.castleIds = None THEN <<>> ELSE data.castleIds[1])
    /\ r.achievements = (IF data.achievements = None THEN <<>> ELSE data.achievements[1])
    /\ r.description = Some(IF data.description.t = "undefined" THEN ""
                            ELSE data.description.s)

\* C35: after dataSetupCallback the current and the source collection hold
\* exactly the fixture entities with a non-empty id, name, title and house and
\* a numeric reignStart, in fixture order, castleIds and achievements []
\* and description '' when missing; incomplete entities are skipped.
C35_Step ==
    last'.op = "dataSetupCallback"
        => LET entities == last'.entities
               kept == {i \in DOMAIN entities : C35_Complete(entities[i])}
           IN  /\ Len(RulerList') = Cardinality(kept)
               /\ SourceRulerList' = RulerList'
               /\ \A i \in kept :
                    C35_Loaded(RulerList'[Cardinality({j \in kept : j <= i})], entities[i])

C36_Step ==
    (last'.op = "POST /castles" /\ last'.status = 201)
        => /\ \E n \in 1..NumGeneratedIds : last'.ret.id = generateCastleId(n)
           /\ \A i \in DOMAIN castles : castles[i].id # last'.ret.id

C36_IdNeverFromBody == [][C36_Step]_vars


\* C37: on the same ruler data the mock server and the provider agree: for
\* every argument getRulersByCastle, getRulersByHouse and getRulersByPeriod
\* return the same rulers in the same order, and updateRuler, addCastleToRuler
\* and removeCastleFromRuler leave the same collection.
C37_Step ==
    /\ last'.op = "getRulersByCastle"
            => last'.ret = mockGetRulersByCastle(RulerList, last'.castleId)
    /\ last'.op = "getRulersByHouse"
            => last'.ret = mockGetRulersByHouse(RulerList, last'.house)
    /\ last'.op = "getRulersByPeriod"
            => last'.ret = mockGetRulersByPeriod(RulerList, last'.startYear,
                                                 last'.endYear, last'.currentYear)
    /\ last'.op = "updateRuler"
            => RulerList' = mockUpdateRuler(RulerList, last'.id, last'.arg)
    /\ last'.op = "addCastleToRuler"
            => RulerList' = mockAddCastleToRuler(RulerList, last'.id, last'.castleId)
    /\ last'.op = "removeCastleFromRuler"
            => RulerList' = mockRemoveCastleFromRuler(RulerList, last'.id, last'.castleId)

C37_MockEquivalent == [][C37_Step]_vars


\* C38: CastleApiClient.getAllCastles prefers the service binding and falls
\* back to HTTP: a binding that answers ok gives the data with no HTTP
\* request; a binding that answers not-ok, or no binding, means exactly one
\* HTTP call; when that call fails or answers not-ok the call rejects with an
\* error and returns no list.
C38_BindingThenHttp ==
    (last.op = "CastleApiClient.getAllCastles" /\ last.pc \in {"returned", "rejected"})
        => /\ (last.serviceBinding /\ last.bindingOutcome = "ok")
                => /\ last.pc = "returned"
                   /\ last.ret = Some(castles)
                   /\ last.httpCalls = 0
           /\ (~last.serviceBinding \/ last.bindingOutcome = "not-ok")
                => last.httpCalls = 1
           /\ last.httpOutcome \in {"fails", "not-ok"}
                => /\ last.pc = "rejected"
                   /\ last.thrown # None
                   /\ last.ret = None
           /\ last.httpOutcome = "ok"
                => last.pc = "returned" /\ last.ret = Some(castles)

\* the binding answered not-ok and the one HTTP call returned the castles
C38_Witness ==
    /\ last.op = "CastleApiClient.getAllCastles"
    /\ last.serviceBinding
    /\ last.bindingOutcome = "not-ok"
    /\ last.httpOutcome = "ok"
    /\ last.httpCalls = 1
    /\ last.pc = "returned"
    /\ castles # <<>>
    /\ last.ret = Some(castles)

=============================================================================
